---- MODULE Spec2Model ----
(***************************************************************************)
(* Brand-monitoring pipeline of ai_optimizer: the PocketFlow graph built   *)
(* in flow.py, the six nodes of nodes.py and the utilities they call, and  *)
(* the two callers of the flow: the web application of app.py with its     *)
(* registry of sessions, and the command-line session of main.py.          *)
(*                                                                         *)
(* Spec is the flow and its nodes run on a given store; SessionSpec is the *)
(* flow run by a caller on what a user submitted.  PollSpec adds the pages *)
(* that look a web session up while its thread runs; AbsentSpec runs the   *)
(* flow on a store that lacks keys; HangSpec runs the fan-out batch on     *)
(* services that may never answer, under weak fairness of the node's one   *)
(* thread; StoreSpec is two runs writing the JSON database at the same     *)
(* time; FilenameSpec applies PDFGenerator.get_filename to brand names.    *)
(*                                                                         *)
(* Text is a sequence of one-character strings, so that lower-casing,      *)
(* substring search and the context-window regular expression of           *)
(* utils/text_analysis.py are computed rather than assumed.  A Python dict *)
(* is a function whose DOMAIN is the set of keys present.  A float that    *)
(* the code computes by division is the exact fraction [num, den].         *)
(***************************************************************************)
EXTENDS Integers, Sequences, FiniteSets, TLC

----------------------------------------------------------------------------
(* Python built-ins used by the nodes *)

Max(a, b) == IF a >= b THEN a ELSE b

Min(a, b) == IF a <= b THEN a ELSE b

Abs(a) == IF a < 0 THEN -a ELSE a

RECURSIVE Gcd(_, _)
Gcd(a, b) == IF b = 0 THEN a ELSE Gcd(b, a % b)

(* a / b of two ints as a fraction in lowest terms, den > 0 *)
Frac(n, d) ==
  LET g == Gcd(Abs(n), Abs(d))
      s == IF d < 0 THEN -1 ELSE 1
  IN  IF n = 0 THEN [num |-> 0, den |-> 1]
      ELSE [num |-> s * (n \div g), den |-> s * (d \div g)]

FracAdd(x, y) == Frac(x.num * y.den + y.num * x.den, x.den * y.den)

FracLess(x, y) == x.num * y.den < y.num * x.den

(* dict.get(key, default) *)
Get(d, k, default) == IF k \in DOMAIN d THEN d[k] ELSE default

(* d[key] = value *)
Put(d, k, v) == [x \in (DOMAIN d) \cup {k} |-> IF x = k THEN v ELSE d[x]]

(* str.lower() on one character *)
LowerChar(c) ==
  CASE c = "A" -> "a"
    [] c = "B" -> "b"
    [] c = "C" -> "c"
    [] c = "D" -> "d"
    [] c = "E" -> "e"
    [] c = "F" -> "f"
    [] c = "G" -> "g"
    [] c = "H" -> "h"
    [] c = "I" -> "i"
    [] c = "J" -> "j"
    [] c = "K" -> "k"
    [] c = "L" -> "l"
    [] c = "M" -> "m"
    [] c = "N" -> "n"
    [] c = "O" -> "o"
    [] c = "P" -> "p"
    [] c = "Q" -> "q"
    [] c = "R" -> "r"
    [] c = "S" -> "s"
    [] c = "T" -> "t"
    [] c = "U" -> "u"
    [] c = "V" -> "v"
    [] c = "W" -> "w"
    [] c = "X" -> "x"
    [] c = "Y" -> "y"
    [] c = "Z" -> "z"
    [] OTHER -> c

Lower(s) == [i \in 1..Len(s) |-> LowerChar(s[i])]

(* sub occurs in s at index i (1-based) *)
IsAt(s, sub, i) ==
  /\ i >= 1
  /\ i + Len(sub) - 1 <= Len(s)
  /\ \A k \in 1..Len(sub) : s[i + k - 1] = sub[k]

(* the Python test  sub in s  *)
Contains(s, sub) == \E i \in 1..(Len(s) - Len(sub) + 1) : IsAt(s, sub, i)

Whitespace == {" ", "\n", "\t"}

(* len(text.split()) *)
WordCount(s) ==
  Cardinality({i \in 1..Len(s) :
                 /\ s[i] \notin Whitespace
                 /\ (i = 1 \/ s[i - 1] \in Whitespace)})

(* sum(1 for word in words if word in text) *)
CountHits(words, text) ==
  Cardinality({i \in 1..Len(words) : Contains(text, words[i])})

RECURSIVE Flatten(_)
Flatten(ss) == IF ss = <<>> THEN <<>> ELSE Head(ss) \o Flatten(Tail(ss))

----------------------------------------------------------------------------
(* utils/text_analysis.py *)

positive_words ==
  << <<"g","o","o","d">>,
     <<"g","r","e","a","t">>,
     <<"e","x","c","e","l","l","e","n","t">>,
     <<"a","m","a","z","i","n","g">>,
     <<"b","e","s","t">>,
     <<"l","o","v","e">>,
     <<"f","a","n","t","a","s","t","i","c">>,
     <<"w","o","n","d","e","r","f","u","l">>,
     <<"o","u","t","s","t","a","n","d","i","n","g">>,
     <<"s","u","p","e","r","i","o","r">>,
     <<"i","n","n","o","v","a","t","i","v","e">>,
     <<"r","e","l","i","a","b","l","e">> >>

negative_words ==
  << <<"b","a","d">>,
     <<"t","e","r","r","i","b","l","e">>,
     <<"a","w","f","u","l">>,
     <<"w","o","r","s","t">>,
     <<"h","a","t","e">>,
     <<"h","o","r","r","i","b","l","e">>,
     <<"p","o","o","r">>,
     <<"d","i","s","a","p","p","o","i","n","t","i","n","g">>,
     <<"u","n","r","e","l","i","a","b","l","e">>,
     <<"e","x","p","e","n","s","i","v","e">>,
     <<"o","v","e","r","p","r","i","c","e","d">>,
     <<"p","r","o","b","l","e","m">> >>

theme_keywords ==
  << [theme |-> "product_quality",
       keywords |-> <<<<"q","u","a","l","i","t","y">>,
                      <<"p","e","r","f","o","r","m","a","n","c","e">>,
                      <<"r","e","l","i","a","b","i","l","i","t","y">>,
                      <<"d","u","r","a","b","l","e">>>>],
     [theme |-> "customer_service",
       keywords |-> <<<<"s","e","r","v","i","c","e">>,
                      <<"s","u","p","p","o","r","t">>,
                      <<"h","e","l","p">>,
                      <<"a","s","s","i","s","t","a","n","c","e">>>>],
     [theme |-> "pricing",
       keywords |-> <<<<"p","r","i","c","e">>,
                      <<"c","o","s","t">>,
                      <<"e","x","p","e","n","s","i","v","e">>,
                      <<"c","h","e","a","p">>,
                      <<"v","a","l","u","e">>,
                      <<"m","o","n","e","y">>>>],
     [theme |-> "innovation",
       keywords |-> <<<<"i","n","n","o","v","a","t","i","v","e">>,
                      <<"t","e","c","h","n","o","l","o","g","y">>,
                      <<"a","d","v","a","n","c","e","d">>,
                      <<"c","u","t","t","i","n","g","-","e","d","g","e">>>>],
     [theme |-> "competition",
       keywords |-> <<<<"c","o","m","p","e","t","i","t","o","r">>,
                      <<"a","l","t","e","r","n","a","t","i","v","e">>,
                      <<"v","e","r","s","u","s">>,
                      <<"c","o","m","p","a","r","e","d"," ","t","o">>>>] >>

(* width of the context captured on each side of a keyword: .{0,50} *)
ContextWindow == 50

(* '.' matches every character but a newline *)
NoNewline(s, a, b) == \A i \in a..b : s[i] # "\n"

SetMin(S) == CHOOSE x \in S : \A y \in S : x <= y

SetMax(S) == CHOOSE x \in S : \A y \in S : x >= y

(* re.finditer(r'.{0,50}' + re.escape(kw) + r'.{0,50}', text_lower): the  *)
(* positions from pos on where the keyword occurs                          *)
Occurrences(text_lower, kw, pos) ==
  {p \in pos..(Len(text_lower) - Len(kw) + 1) : IsAt(text_lower, kw, p)}

(* the leftmost start from which .{0,50} reaches the occurrence at first *)
MatchStart(text_lower, pos, first) ==
  SetMin({s \in pos..first :
            /\ first - s <= ContextWindow
            /\ NoNewline(text_lower, s, first - 1)})

(* greedy .{0,50}: the last occurrence the prefix can reach from start *)
MatchKeyword(text_lower, occs, start) ==
  SetMax({p \in occs :
            /\ p >= start
            /\ p - start <= ContextWindow
            /\ NoNewline(text_lower, start, p - 1)})

(* greedy .{0,50} after the keyword, which ends before index after *)
MatchStop(text_lower, after) ==
  SetMax({e \in after..Min(after + ContextWindow, Len(text_lower) + 1) :
            NoNewline(text_lower, after, e - 1)})

(* the match that begins at start: [start, stop) *)
MatchFrom(text_lower, kw, occs, start) ==
  [start |-> start,
   stop  |-> MatchStop(text_lower, MatchKeyword(text_lower, occs, start) + Len(kw))]

RECURSIVE FindIter(_, _, _)

(* the match m, then the matches of the scan resumed at its end *)
MatchThenRest(text_lower, kw, pos, m) ==
  << [context |-> SubSeq(text_lower, m.start, m.stop - 1), position |-> m.start - 1] >>
  \o FindIter(text_lower, kw, IF m.stop > pos THEN m.stop ELSE pos + 1)

FindFrom(text_lower, kw, pos, occs) ==
  IF occs = {} THEN <<>>
  ELSE MatchThenRest(text_lower, kw, pos,
                     MatchFrom(text_lower, kw, occs,
                               MatchStart(text_lower, pos, SetMin(occs))))

(* the matches finditer yields scanning from index pos *)
FindIter(text_lower, kw, pos) ==
  FindFrom(text_lower, kw, pos, Occurrences(text_lower, kw, pos))

(* max(-1, min(1, sentiment)) *)
Clamp(sentiment) ==
  IF FracLess([num |-> 1, den |-> 1], sentiment) THEN [num |-> 1, den |-> 1]
  ELSE IF FracLess(sentiment, [num |-> -1, den |-> 1]) THEN [num |-> -1, den |-> 1]
  ELSE sentiment

(* (positive - negative) / max(total_words / 10, 1) *)
SentimentOf(text_lower, total_words) ==
  IF total_words = 0 THEN Frac(0, 1)
  ELSE Clamp(Frac(10 * (CountHits(positive_words, text_lower)
                        - CountHits(negative_words, text_lower)),
                  Max(total_words, 10)))

calculate_sentiment(text, mentions) ==
  IF mentions = <<>> THEN Frac(0, 1)
  ELSE SentimentOf(Lower(text), WordCount(text))

get_sentiment_label(score) ==
  IF FracLess([num |-> 1, den |-> 5], score) THEN "positive"
  ELSE IF FracLess(score, [num |-> -1, den |-> 5]) THEN "negative"
  ELSE "neutral"

extract_themes(text) ==
  LET text_lower == Lower(text)
      hit(i) == \E k \in 1..Len(theme_keywords[i].keywords) :
                   Contains(text_lower, theme_keywords[i].keywords[k])
  IN  Flatten([i \in 1..Len(theme_keywords) |->
                 IF hit(i) THEN << theme_keywords[i].theme >> ELSE <<>>])

(* the mentions of one keyword: for match in finditer(...) *)
KeywordMatches(keyword, matches) ==
  [m \in 1..Len(matches) |->
     [keyword  |-> keyword,
      context  |-> matches[m].context,
      position |-> matches[m].position]]

(* if keyword_lower in text_lower: ... *)
KeywordMentions(text_lower, keyword, keyword_lower) ==
  IF Contains(text_lower, keyword_lower)
  THEN KeywordMatches(keyword, FindIter(text_lower, keyword_lower, 1))
  ELSE <<>>

(* the loop over brand_keywords *)
FindMentions(text_lower, brand_keywords) ==
  Flatten([k \in 1..Len(brand_keywords) |->
             KeywordMentions(text_lower, brand_keywords[k], Lower(brand_keywords[k]))])

(* the dict analyze_brand_mentions returns *)
MentionsResult(text, mentions, sentiment_score) ==
  [mentions_found  |-> Len(mentions),
   mentions        |-> mentions,
   sentiment_score |-> sentiment_score,
   sentiment_label |-> get_sentiment_label(sentiment_score),
   themes          |-> extract_themes(text),
   word_count      |-> WordCount(text),
   contains_brand  |-> Len(mentions) > 0]

WithSentiment(text, mentions) ==
  MentionsResult(text, mentions, calculate_sentiment(text, mentions))

analyze_brand_mentions(text, brand_keywords) ==
  WithSentiment(text, FindMentions(Lower(text), brand_keywords))

----------------------------------------------------------------------------
(* Inputs: the texts, stores and service replies the runs are drawn from *)

(* number of queries in a store prepared for a single-node run *)
MaxQueries == 1

BrandName == <<"A","c","m","e">>

Industry == <<"r","o","o","f">>

(* the brand configuration a caller hands to the flow: main.py, app.py *)
BrandConfig ==
  [name     |-> BrandName,
   keywords |-> << BrandName, <<"r","o","o","f">> >>,
   industry |-> Industry]

(* "no idea": an answer without any keyword *)
TextNoMention == <<"n","o"," ","i","d","e","a">>

(* "Acme roof\nACME best": an answer with three keyword mentions *)
TextMentions ==
  <<"A","c","m","e"," ","r","o","o","f","\n","A","C","M","E"," ","b","e","s","t">>

Texts == {TextNoMention, TextMentions}

(* "best roof": a generic query; "is Acme good": a query naming the brand *)
QueryGeneric == <<"b","e","s","t"," ","r","o","o","f">>

QueryBranded == <<"i","s"," ","A","c","m","e"," ","g","o","o","d">>

QueryTexts == {QueryGeneric, QueryBranded}

required_categories ==
  << "category_exploration", "comparison_research", "problem_solving", "direct_brand" >>

RecognizedCategories == {required_categories[i] : i \in 1..Len(required_categories)}

(* categories a prepared store may carry: two of the four, and one that is *)
(* not recognized (an extra key of the generated YAML)                     *)
StoreCategories == {"category_exploration", "direct_brand", "seasonal"}

platforms == << "chatgpt", "gemini" >>

Nodes ==
  {"query_generator", "platform_querier", "response_analyzer",
   "optimization_agent", "report_generator", "database_storage"}

----------------------------------------------------------------------------
VARIABLES
  shared,       (* the shared store handed to every node                     *)
  successors,   (* node -> (action label -> node), set by >> and - "label" >> *)
  curr,         (* the node in control                                        *)
  phase,        (* "prep", "exec" or "post" of curr                           *)
  prep_res,     (* what curr.prep returned                                    *)
  exec_res,     (* what curr.exec returned; for a BatchNode the list so far   *)
  last_action,  (* the label the last post returned                           *)
  trace,        (* the (node, label) pairs of the stages completed so far      *)
  run,          (* "idle", "running", "done"; "failed": an exception escaped   *)
  env,          (* the external services: OpenAI, Gemini, the texts they give  *)
  clock,        (* time.time() / datetime.now()                                *)
  db_file,      (* contents of ai_optimization_data.json                       *)
  entry,        (* "flow": flow.run(shared); "node": node.run(shared) in tests *)
  rerun,        (* the aggregation repeated by a test: its order and result    *)
  caller,       (* who starts the run: "web" (app.py), "cli" (main.py), "none" *)
  form,         (* what the caller's user typed: brand name, industry, keywords *)
  pc,           (* where the caller is: "input", "thread", "flow", "returned"  *)
  analysis_sessions,  (* app.py: the registry of analysis sessions             *)
  served,       (* the last answer given to the user                           *)
  dbs           (* the SimpleJSONDB instances of concurrent runs: their self.data *)

(* the state of app.py and main.py around the flow *)
front == << caller, form, pc, analysis_sessions, served, dbs >>

vars ==
  << shared, successors, curr, phase, prep_res, exec_res, last_action, trace,
     run, env, clock, db_file, entry, rerun, caller, form, pc, analysis_sessions,
     served, dbs >>

(* an empty Python dict or list *)
EmptyDict == << >>

(* shared.get(key, {}) *)
SharedGet(key) == Get(shared, key, EmptyDict)

----------------------------------------------------------------------------
(* pocketflow: Node.run / Flow.run as nodes.py and flow.py rely on them *)

(* Flow.get_next_node: curr.successors.get(action or "default") *)
get_next_node(node, action) ==
  IF action \in DOMAIN successors[node] THEN successors[node][action] ELSE "none"

(* post returned `action`: the stage is complete and control moves on *)
StageDone(action) ==
  /\ last_action' = action
  /\ trace' = Append(trace, [node |-> curr, action |-> action])
  /\ curr' = get_next_node(curr, action)
  /\ run' = IF get_next_node(curr, action) = "none" THEN "done" ELSE "running"
  /\ phase' = "prep"
  /\ prep_res' = << >>
  /\ exec_res' = << >>

(* an exception left prep, exec or post: Flow.run propagates it *)
Raise ==
  /\ run' = "failed"
  /\ UNCHANGED << shared, successors, curr, phase, prep_res, exec_res,
                  last_action, trace, env, clock, db_file, entry, rerun, front >>

At(node, ph) == run = "running" /\ curr = node /\ phase = ph

----------------------------------------------------------------------------
(* utils/call_llm.py and utils/ai_platforms.py *)

(* what one call_llm(prompt) can do now: return one of the texts, or raise; *)
(* client.chat.completions.create is called with no timeout of its own, so *)
(* on a service that never answers ("hung") the call does not return       *)
CallLLMOutcomes ==
  IF env.openai = "hung"
  THEN {[raised |-> FALSE, hung |-> TRUE, text |-> << >>]}
  ELSE {[raised |-> FALSE, hung |-> FALSE, text |-> t] :
          t \in IF env.openai # "down" THEN env.replies ELSE {}}
       \cup (IF env.openai # "up"
             THEN {[raised |-> TRUE, hung |-> FALSE, text |-> << >>]} ELSE {})

(* what genai's generate_content can do now (no API key counts as raising) *)
GeminiOutcomes ==
  IF env.google = "hung"
  THEN {[raised |-> FALSE, hung |-> TRUE, text |-> << >>]}
  ELSE {[raised |-> FALSE, hung |-> FALSE, text |-> t] :
          t \in IF env.google # "down" THEN env.replies ELSE {}}
       \cup (IF env.google # "up"
             THEN {[raised |-> TRUE, hung |-> FALSE, text |-> << >>]} ELSE {})

Simulated == <<"[","S","i","m","u","l","a","t","e","d","]"," ">>

query_chatgpt(query, llm, now) ==
  IF ~llm.raised
  THEN [platform |-> "chatgpt", query |-> query, response |-> llm.text,
        timestamp |-> now, status |-> "success"]
  ELSE [platform |-> "chatgpt", query |-> query, response |-> << >>,
        timestamp |-> now, status |-> "error", error |-> "LLM call failed"]

(* query_gemini reporting the simulated answer as an error *)
QueryGeminiSubstituteAsError(query, primary, llm, now) ==
  IF ~primary.raised
  THEN [platform |-> "gemini", query |-> query, response |-> primary.text,
        timestamp |-> now, status |-> "success"]
  ELSE [platform |-> "gemini", query |-> query,
        response |-> IF ~llm.raised THEN Simulated \o llm.text ELSE << >>,
        timestamp |-> now, status |-> "error", error |-> "LLM call failed"]

query_gemini(query, primary, llm, now) ==
  IF ~primary.raised
  THEN [platform |-> "gemini", query |-> query, response |-> primary.text,
        timestamp |-> now, status |-> "success"]
  ELSE IF ~llm.raised
  THEN [platform |-> "gemini", query |-> query, response |-> Simulated \o llm.text,
        timestamp |-> now, status |-> "fallback"]
  ELSE [platform |-> "gemini", query |-> query, response |-> << >>,
        timestamp |-> now, status |-> "error", error |-> "LLM call failed"]

----------------------------------------------------------------------------
(* nodes.py: MultiPlatformQueryNode *)

(* MultiPlatformQueryNode_prep pairing each query with the first platform only *)
PrepFirstPlatformOnly ==
  LET all_queries == Get(SharedGet("queries"), "all_queries", << >>)
  IN  [q \in 1..Len(all_queries) |->
         [query           |-> all_queries[q].query,
          category        |-> all_queries[q].category,
          brand_mentioned |-> all_queries[q].brand_mentioned,
          platform        |-> platforms[1]]]

MultiPlatformQueryNode_prep ==
  LET all_queries == Get(SharedGet("queries"), "all_queries", << >>)
  IN  Flatten([q \in 1..Len(all_queries) |->
                 [p \in 1..Len(platforms) |->
                    [query           |-> all_queries[q].query,
                     category        |-> all_queries[q].category,
                     brand_mentioned |-> all_queries[q].brand_mentioned,
                     platform        |-> platforms[p]]]])

MultiPlatformQueryNode_exec(query_platform_pair, primary, llm, now) ==
  LET query    == query_platform_pair.query
      platform == query_platform_pair.platform
      result   ==
        IF platform = "chatgpt" THEN query_chatgpt(query, llm, now)
        ELSE IF platform = "gemini" THEN query_gemini(query, primary, llm, now)
        ELSE [platform |-> platform, query |-> query, response |-> << >>,
              status |-> "error", error |-> "Unknown platform"]
  IN  Put(Put(result, "category", query_platform_pair.category),
          "brand_mentioned_in_query", query_platform_pair.brand_mentioned)

(* every call exec makes for this pair returns: query_chatgpt calls call_llm; *)
(* query_gemini calls generate_content and, when that raises, call_llm       *)
CallReturns(query_platform_pair, primary, llm) ==
  IF query_platform_pair.platform = "chatgpt" THEN ~llm.hung
  ELSE IF query_platform_pair.platform = "gemini"
  THEN ~primary.hung /\ (primary.raised => ~llm.hung)
  ELSE TRUE

(* the responses of exec_res_list whose platform is p, in list order *)
ByPlatform(exec_res_list, p) ==
  SelectSeq(exec_res_list, LAMBDA r : Get(r, "platform", "None") = p)

MultiPlatformQueryNode_post(exec_res_list) ==
  Put(shared, "ai_responses",
      [chatgpt |-> ByPlatform(exec_res_list, "chatgpt"),
       gemini  |-> ByPlatform(exec_res_list, "gemini")])

PlatformQueryPrep ==
  /\ At("platform_querier", "prep")
  /\ prep_res' = MultiPlatformQueryNode_prep
  /\ exec_res' = << >>
  /\ phase' = IF MultiPlatformQueryNode_prep = << >> THEN "post" ELSE "exec"
  /\ UNCHANGED << shared, successors, curr, last_action, trace, run, env, clock,
                  db_file, entry, rerun, front >>

(* PlatformQueryExec with the failure of a provider call leaving exec *)
PlatformQueryExecAborting ==
  /\ At("platform_querier", "exec")
  /\ Len(exec_res) < Len(prep_res)
  /\ \E primary \in GeminiOutcomes, llm \in CallLLMOutcomes :
        /\ CallReturns(prep_res[Len(exec_res) + 1], primary, llm)
        /\ IF MultiPlatformQueryNode_exec(prep_res[Len(exec_res) + 1],
                                          primary, llm, clock).status = "error"
           THEN Raise
           ELSE /\ exec_res' = Append(exec_res,
                                      MultiPlatformQueryNode_exec(prep_res[Len(exec_res) + 1],
                                                                  primary, llm, clock))
                /\ clock' = clock + 1
                /\ phase' = IF Len(exec_res) + 1 = Len(prep_res) THEN "post" ELSE "exec"
                /\ UNCHANGED << shared, successors, curr, prep_res, last_action, trace,
                                run, env, db_file, entry, rerun, front >>

(* BatchNode._exec: exec on the next item of prep_res *)
PlatformQueryExec ==
  /\ At("platform_querier", "exec")
  /\ Len(exec_res) < Len(prep_res)
  /\ \E primary \in GeminiOutcomes, llm \in CallLLMOutcomes :
        /\ CallReturns(prep_res[Len(exec_res) + 1], primary, llm)
        /\ exec_res' = Append(exec_res,
                              MultiPlatformQueryNode_exec(prep_res[Len(exec_res) + 1],
                                                          primary, llm, clock))
  /\ clock' = clock + 1
  /\ phase' = IF Len(exec_res) + 1 = Len(prep_res) THEN "post" ELSE "exec"
  /\ UNCHANGED << shared, successors, curr, prep_res, last_action, trace, run, env,
                  db_file, entry, rerun, front >>

PlatformQueryPost ==
  /\ At("platform_querier", "post")
  /\ shared' = MultiPlatformQueryNode_post(exec_res)
  /\ StageDone("default")
  /\ UNCHANGED << successors, env, clock, db_file, entry, rerun, front >>

----------------------------------------------------------------------------
(* nodes.py: ResponseAnalysisNode *)

(* the keys of ai_responses in dict order *)
PlatformOrder(ai_responses) == SelectSeq(platforms, LAMBDA p : p \in DOMAIN ai_responses)

(* for platform, responses in ai_responses.items(): for response in responses *)
FlatResponses(ai_responses) ==
  Flatten([k \in 1..Len(PlatformOrder(ai_responses)) |->
             ai_responses[PlatformOrder(ai_responses)[k]]])

(* the response objects are shared between the store and the flat list: what *)
(* is written to the i-th item of the flat list is written to the store      *)
RECURSIVE WriteFlat(_, _, _, _)
WriteFlat(ai_responses, order, i, r) ==
  IF order = << >> THEN ai_responses
  ELSE LET p == Head(order)
       IN  IF i <= Len(ai_responses[p])
           THEN [ai_responses EXCEPT ![p][i] = r]
           ELSE WriteFlat(ai_responses, Tail(order), i - Len(ai_responses[p]), r)

ResponseAnalysisNode_prep ==
  LET ai_responses   == SharedGet("ai_responses")
      brand_keywords == Get(SharedGet("brand_config"), "keywords", << >>)
      flat           == FlatResponses(ai_responses)
  IN  [i \in 1..Len(flat) |-> Put(flat[i], "brand_keywords", brand_keywords)]

(* WithAnalysis with every mention taken as organic *)
WithAnalysisIgnoringQuery(response_data, found, brand_mentioned_in_query) ==
  Put(response_data, "analysis",
      Put(Put(Put(found, "query_category", Get(response_data, "category", "unknown")),
              "brand_mentioned_in_query", brand_mentioned_in_query),
          "organic_mention", found.mentions_found > 0))

(* analysis["query_category"] = ...; analysis["organic_mention"] = ...; *)
(* response_data["analysis"] = analysis                                 *)
WithAnalysis(response_data, found, brand_mentioned_in_query) ==
  Put(response_data, "analysis",
      Put(Put(Put(found, "query_category", Get(response_data, "category", "unknown")),
              "brand_mentioned_in_query", brand_mentioned_in_query),
          "organic_mention",
          IF found.mentions_found > 0 THEN ~brand_mentioned_in_query ELSE FALSE))

(* ResponseAnalysisNode_exec skipping only the responses without a text *)
ExecSkippingOnlyErrors(response_data) ==
  IF Get(response_data, "status", "None") = "error" THEN response_data
  ELSE WithAnalysis(response_data,
                    analyze_brand_mentions(Get(response_data, "response", << >>),
                                           Get(response_data, "brand_keywords", << >>)),
                    Get(response_data, "brand_mentioned_in_query", FALSE))

ResponseAnalysisNode_exec(response_data) ==
  IF Get(response_data, "status", "None") # "success" THEN response_data
  ELSE WithAnalysis(response_data,
                    analyze_brand_mentions(Get(response_data, "response", << >>),
                                           Get(response_data, "brand_keywords", << >>)),
                    Get(response_data, "brand_mentioned_in_query", FALSE))

ZeroMetrics == [total |-> 0, mentions |-> 0, organic_mentions |-> 0]

(* the accumulators of post before its loop *)
PostStart ==
  [ai_responses     |-> [chatgpt |-> << >>, gemini |-> << >>],
   category_metrics |-> [category_exploration |-> ZeroMetrics,
                         comparison_research  |-> ZeroMetrics,
                         problem_solving      |-> ZeroMetrics,
                         direct_brand         |-> ZeroMetrics],
   total_mentions         |-> 0,
   total_organic_mentions |-> 0,
   sentiment_scores       |-> << >>]

(* AddMentions with the counter dropped when a response mentions nothing *)
AddMentionsOrReset(count, mentions) ==
  IF mentions > 0 THEN count + mentions ELSE 0

(* if mentions > 0: counter += mentions *)
AddMentions(count, mentions) ==
  IF mentions > 0 THEN count + mentions ELSE count

(* TotalAfter with the flat total incremented outside the category test *)
TotalAfterAnyCategory(total, counted, mentions) ==
  AddMentions(total, mentions)

(* total_mentions += mentions, nested in  if category in category_metrics *)
TotalAfter(total, counted, mentions) ==
  IF counted THEN AddMentions(total, mentions) ELSE total

(* one turn of the loop  for response in exec_res_list  of post *)
PostStep(acc, response) ==
  LET platform == Get(response, "platform", "None")
      analysed == "analysis" \in DOMAIN response
      analysis == response["analysis"]
      category == Get(analysis, "query_category", "unknown")
      counted  == category \in DOMAIN acc.category_metrics
      mentions == Get(analysis, "mentions_found", 0)
      organic  == Get(analysis, "organic_mention", FALSE)
      score    == Get(analysis, "sentiment_score", Frac(0, 1))
  IN  IF platform \notin DOMAIN acc.ai_responses THEN acc
      ELSE IF ~analysed
      THEN [acc EXCEPT !.ai_responses[platform] = Append(@, response)]
      ELSE
        [acc EXCEPT
           !.ai_responses[platform] = Append(@, response),
           !.category_metrics =
              IF ~counted THEN @
              ELSE [@ EXCEPT
                      ![category].total = @ + 1,
                      ![category].mentions = AddMentions(@, mentions),
                      ![category].organic_mentions =
                         IF organic THEN AddMentions(@, mentions) ELSE @],
           !.total_mentions = TotalAfter(@, counted, mentions),
           !.total_organic_mentions =
              IF organic THEN TotalAfter(@, counted, mentions) ELSE @,
           !.sentiment_scores =
              IF score.num # 0 THEN Append(@, score) ELSE @]

(* for response in exec_res_list: the accumulators of a turn are computed *)
(* before the next turn starts                                            *)
RECURSIVE PostLoop(_, _)
PostLoop(acc, exec_res_list) ==
  IF exec_res_list = << >> \/ DOMAIN acc = {} THEN acc
  ELSE PostLoop(PostStep(acc, Head(exec_res_list)), Tail(exec_res_list))

(* sum(sentiment_scores), added pairwise *)
RECURSIVE FracSum(_)
FracSum(scores) ==
  IF scores = << >> THEN Frac(0, 1)
  ELSE IF Len(scores) = 1 THEN scores[1]
  ELSE FracAdd(FracSum(SubSeq(scores, 1, Len(scores) \div 2)),
               FracSum(SubSeq(scores, Len(scores) \div 2 + 1, Len(scores))))

(* the record post stores under shared["analysis"] *)
RunAnalysis(exec_res_list, now) ==
  LET acc             == PostLoop(PostStart, exec_res_list)
      total_responses == Len(exec_res_list)
      total           == FracSum(acc.sentiment_scores)
  IN  [total_mentions         |-> acc.total_mentions,
       total_organic_mentions |-> acc.total_organic_mentions,
       organic_mention_rate   |->
          IF total_responses > 0
          THEN Frac(acc.total_organic_mentions, total_responses)
          ELSE Frac(0, 1),
       total_responses        |-> total_responses,
       avg_sentiment          |->
          IF acc.sentiment_scores # << >>
          THEN Frac(total.num, total.den * Len(acc.sentiment_scores))
          ELSE Frac(0, 1),
       category_breakdown     |-> acc.category_metrics,
       analyzed_at            |-> now]

(* ResponseAnalysisNode_post with total_responses carried over from the *)
(* analysis already in the store                                        *)
PostKeepingPreviousCount(store, exec_res_list, now) ==
  Put(Put(store, "ai_responses", PostLoop(PostStart, exec_res_list).ai_responses),
      "analysis",
      [RunAnalysis(exec_res_list, now) EXCEPT
         !.total_responses = @ + Get(Get(store, "analysis", EmptyDict), "total_responses", 0)])

ResponseAnalysisNode_post(store, exec_res_list, now) ==
  Put(Put(store, "ai_responses", PostLoop(PostStart, exec_res_list).ai_responses),
      "analysis", RunAnalysis(exec_res_list, now))

(* prep writes brand_keywords into the response objects of the store *)
ResponseAnalysisPrep ==
  /\ At("response_analyzer", "prep")
  /\ prep_res' = ResponseAnalysisNode_prep
  /\ exec_res' = << >>
  /\ shared' =
       IF "ai_responses" \in DOMAIN shared
       THEN [shared EXCEPT !["ai_responses"] =
               [p \in DOMAIN @ |->
                  [i \in 1..Len(@[p]) |->
                     Put(@[p][i], "brand_keywords",
                         Get(SharedGet("brand_config"), "keywords", << >>))]]]
       ELSE shared
  /\ phase' = IF ResponseAnalysisNode_prep = << >> THEN "post" ELSE "exec"
  /\ UNCHANGED << successors, curr, last_action, trace, run, env, clock, db_file,
                  entry, rerun, front >>

(* ExecItem handing over to post as soon as one item is analyzed *)
ExecItemThenPost(i, r) ==
  /\ exec_res' = Append(exec_res, r)
  /\ prep_res' = [prep_res EXCEPT ![i] = r]
  /\ shared' = [shared EXCEPT !["ai_responses"] = WriteFlat(@, PlatformOrder(@), i, r)]
  /\ phase' = "post"

(* the i-th item analyzed into r: r is the item itself, in the batch, in *)
(* the result list and in the store                                     *)
ExecItem(i, r) ==
  /\ exec_res' = Append(exec_res, r)
  /\ prep_res' = [prep_res EXCEPT ![i] = r]
  /\ shared' = [shared EXCEPT !["ai_responses"] = WriteFlat(@, PlatformOrder(@), i, r)]
  /\ phase' = IF i = Len(prep_res) THEN "post" ELSE "exec"

(* BatchNode._exec: exec on the next item; exec writes into the item itself *)
ResponseAnalysisExec ==
  /\ At("response_analyzer", "exec")
  /\ Len(exec_res) < Len(prep_res)
  /\ ExecItem(Len(exec_res) + 1, ResponseAnalysisNode_exec(prep_res[Len(exec_res) + 1]))
  /\ UNCHANGED << successors, curr, last_action, trace, run, env, clock, db_file,
                  entry, rerun, front >>

ResponseAnalysisPost ==
  /\ At("response_analyzer", "post")
  /\ shared' = ResponseAnalysisNode_post(shared, exec_res, clock)
  /\ clock' = clock + 1
  /\ StageDone("default")
  /\ UNCHANGED << successors, env, db_file, entry, rerun, front >>

----------------------------------------------------------------------------
(* nodes.py: QueryGeneratorNode *)

(* the number of queries the node asks for, and checks, per category *)
QueriesPerCategory == 5

Digits == << <<"1">>, <<"2">>, <<"3">>, <<"4">>, <<"5">> >>

(* five generated queries: the given text followed by " 1" .. " 5" *)
Numbered(text) == [i \in 1..QueriesPerCategory |-> text \o <<" ">> \o Digits[i]]

(* a generated YAML document of the requested shape, as yaml.safe_load gives it *)
GeneratedQueries ==
  << [category |-> "category_exploration", queries |-> Numbered(QueryGeneric)],
     [category |-> "comparison_research",  queries |-> Numbered(QueryGeneric)],
     [category |-> "problem_solving",      queries |-> Numbered(QueryGeneric)],
     [category |-> "direct_brand",         queries |-> Numbered(QueryBranded)] >>

(* a list item that yaml.safe_load gives as a mapping instead of a text,   *)
(* as it does for an item written  - best roofers: who to hire            *)
MappingItem == << "mapping" >>

(* what call_llm can return for the query prompt: text without a ```yaml     *)
(* fence, a fence around text that is not YAML, or YAML of some shape        *)
QueryReplies ==
  { [fenced |-> FALSE, parses |-> FALSE, value |-> [type |-> "NoneType"]],
    [fenced |-> TRUE,  parses |-> FALSE, value |-> [type |-> "NoneType"]],
    [fenced |-> TRUE,  parses |-> TRUE,  value |-> [type |-> "NoneType"]],
    [fenced |-> TRUE,  parses |-> TRUE,  value |-> [type |-> "list"]],
    [fenced |-> TRUE,  parses |-> TRUE,
     value |-> [type |-> "dict", items |-> SubSeq(GeneratedQueries, 1, 3)]],
    [fenced |-> TRUE,  parses |-> TRUE,
     value |-> [type |-> "dict",
                items |-> [GeneratedQueries EXCEPT ![2].queries = Tail(@)]]],
    [fenced |-> TRUE,  parses |-> TRUE,
     value |-> [type |-> "dict", items |-> GeneratedQueries]],
    [fenced |-> TRUE,  parses |-> TRUE,
     value |-> [type |-> "dict",
                items |-> [GeneratedQueries EXCEPT ![1].queries[1] = MappingItem]]],
    [fenced |-> TRUE,  parses |-> TRUE,
     value |-> [type |-> "dict",
                items |-> Append(GeneratedQueries,
                                 [category |-> "seasonal",
                                  queries  |-> << QueryGeneric >>])]] }

(* response.split("```yaml")[1].split("```")[0] and yaml.safe_load raise or *)
(* give the document                                                        *)
YamlLoads(reply) == reply.fenced /\ reply.parses

(* the loop over required_categories that validates the structure *)
ValidQueries(result) ==
  /\ result.type = "dict"
  /\ \A c \in 1..Len(required_categories) :
        \E k \in 1..Len(result.items) :
           /\ result.items[k].category = required_categories[c]
           /\ Len(result.items[k].queries) = QueriesPerCategory

(* the hardcoded strategic queries of QueryGeneratorNode.exec, an ordered dict *)
fallback_queries(brand_name, industry) ==
  <<
     [category |-> "category_exploration",
      queries  |-> <<
        (* Who are the best {industry} companies? *)
        <<"W","h","o"," ","a","r","e"," ","t","h","e"," ","b","e","s","t"," ">> \o industry \o <<" ","c","o","m","p","a","n","i","e","s","?">>,
        (* What should I look for when choosing a {industry} company? *)
        <<"W","h","a","t"," ","s","h","o","u","l","d"," ","I"," ","l","o","o","k"," ","f","o","r"," ","w","h","e","n"," ","c","h","o","o","s","i","n","g"," ","a"," ">> \o industry \o <<" ","c","o","m","p","a","n","y","?">>,
        (* Top rated {industry} services *)
        <<"T","o","p"," ","r","a","t","e","d"," ">> \o industry \o <<" ","s","e","r","v","i","c","e","s">>,
        (* How to find reliable {industry} providers *)
        <<"H","o","w"," ","t","o"," ","f","i","n","d"," ","r","e","l","i","a","b","l","e"," ">> \o industry \o <<" ","p","r","o","v","i","d","e","r","s">>,
        (* What are the leading {industry} companies? *)
        <<"W","h","a","t"," ","a","r","e"," ","t","h","e"," ","l","e","a","d","i","n","g"," ">> \o industry \o <<" ","c","o","m","p","a","n","i","e","s","?">>
      >>],
     [category |-> "comparison_research",
      queries  |-> <<
        (* Compare {industry} companies *)
        <<"C","o","m","p","a","r","e"," ">> \o industry \o <<" ","c","o","m","p","a","n","i","e","s">>,
        (* {industry} company reviews and ratings *)
        industry \o <<" ","c","o","m","p","a","n","y"," ","r","e","v","i","e","w","s"," ","a","n","d"," ","r","a","t","i","n","g","s">>,
        (* Which {industry} company offers the best value? *)
        <<"W","h","i","c","h"," ">> \o industry \o <<" ","c","o","m","p","a","n","y"," ","o","f","f","e","r","s"," ","t","h","e"," ","b","e","s","t"," ","v","a","l","u","e","?">>,
        (* Local {industry} providers vs national companies *)
        <<"L","o","c","a","l"," ">> \o industry \o <<" ","p","r","o","v","i","d","e","r","s"," ","v","s"," ","n","a","t","i","o","n","a","l"," ","c","o","m","p","a","n","i","e","s">>,
        (* How do {industry} prices compare? *)
        <<"H","o","w"," ","d","o"," ">> \o industry \o <<" ","p","r","i","c","e","s"," ","c","o","m","p","a","r","e","?">>
      >>],
     [category |-> "problem_solving",
      queries  |-> <<
        (* I need {industry} services, what are my options? *)
        <<"I"," ","n","e","e","d"," ">> \o industry \o <<" ","s","e","r","v","i","c","e","s",","," ","w","h","a","t"," ","a","r","e"," ","m","y"," ","o","p","t","i","o","n","s","?">>,
        (* Best {industry} providers for beginners *)
        <<"B","e","s","t"," ">> \o industry \o <<" ","p","r","o","v","i","d","e","r","s"," ","f","o","r"," ","b","e","g","i","n","n","e","r","s">>,
        (* Affordable {industry} services *)
        <<"A","f","f","o","r","d","a","b","l","e"," ">> \o industry \o <<" ","s","e","r","v","i","c","e","s">>,
        (* How long does {industry} typically take? *)
        <<"H","o","w"," ","l","o","n","g"," ","d","o","e","s"," ">> \o industry \o <<" ","t","y","p","i","c","a","l","l","y"," ","t","a","k","e","?">>,
        (* What should I know before hiring {industry} services? *)
        <<"W","h","a","t"," ","s","h","o","u","l","d"," ","I"," ","k","n","o","w"," ","b","e","f","o","r","e"," ","h","i","r","i","n","g"," ">> \o industry \o <<" ","s","e","r","v","i","c","e","s","?">>
      >>],
     [category |-> "direct_brand",
      queries  |-> <<
        (* What do you know about {brand_name}? *)
        <<"W","h","a","t"," ","d","o"," ","y","o","u"," ","k","n","o","w"," ","a","b","o","u","t"," ">> \o brand_name \o <<"?">>,
        (* Tell me about {brand_name} reviews *)
        <<"T","e","l","l"," ","m","e"," ","a","b","o","u","t"," ">> \o brand_name \o <<" ","r","e","v","i","e","w","s">>,
        (* Is {brand_name} a good {industry} company? *)
        <<"I","s"," ">> \o brand_name \o <<" ","a"," ","g","o","o","d"," ">> \o industry \o <<" ","c","o","m","p","a","n","y","?">>,
        (* How does {brand_name} compare to competitors? *)
        <<"H","o","w"," ","d","o","e","s"," ">> \o brand_name \o <<" ","c","o","m","p","a","r","e"," ","t","o"," ","c","o","m","p","e","t","i","t","o","r","s","?">>,
        (* {brand_name} pricing and services *)
        brand_name \o <<" ","p","r","i","c","i","n","g"," ","a","n","d"," ","s","e","r","v","i","c","e","s">>
      >>]
  >>

QueryGeneratorNode_exec(brand_config, reply) ==
  LET brand_name == Get(brand_config, "name", << >>)
      industry   == Get(brand_config, "industry", << >>)
  IN  IF YamlLoads(reply) /\ ValidQueries(reply.value)
      THEN reply.value.items
      ELSE fallback_queries(brand_name, industry)

(* query.lower() in the loop of post needs every query to be a text *)
QueryPostRaises(categorized) ==
  \E k \in 1..Len(categorized) :
     \E i \in 1..Len(categorized[k].queries) : categorized[k].queries[i] = MappingItem

(* the flattened list post builds; it reads shared["brand_config"]["name"] *)
all_queries(store, categorized) ==
  Flatten([k \in 1..Len(categorized) |->
             [i \in 1..Len(categorized[k].queries) |->
                [query           |-> categorized[k].queries[i],
                 category        |-> categorized[k].category,
                 brand_mentioned |->
                    Contains(Lower(categorized[k].queries[i]),
                             Lower(store["brand_config"]["name"]))]]])

QueryGeneratorNode_post(store, categorized, now) ==
  Put(store, "queries",
      [categorized  |-> categorized,
       all_queries  |-> all_queries(store, categorized),
       total_count  |-> Len(all_queries(store, categorized)),
       generated_at |-> now])

QueryGeneratorPrep ==
  /\ At("query_generator", "prep")
  /\ prep_res' = SharedGet("brand_config")
  /\ phase' = "exec"
  /\ UNCHANGED << shared, successors, curr, exec_res, last_action, trace, run, env,
                  clock, db_file, entry, rerun, front >>

QueryGeneratorExec ==
  /\ At("query_generator", "exec")
  /\ \E llm \in CallLLMOutcomes, reply \in QueryReplies :
        /\ ~llm.raised
        /\ ~llm.hung
        /\ exec_res' = QueryGeneratorNode_exec(prep_res, reply)
  /\ phase' = "post"
  /\ UNCHANGED << shared, successors, curr, prep_res, last_action, trace, run, env,
                  clock, db_file, entry, rerun, front >>

(* QueryGeneratorExecRaises with the exception of call_llm caught by the *)
(* except branch of exec: the hardcoded queries are returned             *)
QueryGeneratorExecAbsorbing ==
  /\ At("query_generator", "exec")
  /\ \E llm \in CallLLMOutcomes : llm.raised
  /\ exec_res' = fallback_queries(Get(prep_res, "name", << >>),
                                  Get(prep_res, "industry", << >>))
  /\ phase' = "post"
  /\ UNCHANGED << shared, successors, curr, prep_res, last_action, trace, run, env,
                  clock, db_file, entry, rerun, front >>

(* call_llm re-raises what the API call raised; exec does not catch it *)
QueryGeneratorExecRaises ==
  /\ At("query_generator", "exec")
  /\ \E llm \in CallLLMOutcomes : llm.raised
  /\ Raise

QueryGeneratorPost ==
  /\ At("query_generator", "post")
  /\ "brand_config" \in DOMAIN shared
  /\ "name" \in DOMAIN shared["brand_config"]
  /\ ~QueryPostRaises(exec_res)
  /\ shared' = QueryGeneratorNode_post(shared, exec_res, clock)
  /\ clock' = clock + 1
  /\ StageDone("default")
  /\ UNCHANGED << successors, env, db_file, entry, rerun, front >>

(* the exception leaves post before shared["queries"] is assigned *)
QueryGeneratorPostRaises ==
  /\ At("query_generator", "post")
  /\ QueryPostRaises(exec_res)
  /\ Raise

----------------------------------------------------------------------------
(* nodes.py: OptimizationAgentNode *)

Statuses == {"excellent", "good", "needs_improvement", "poor", "average"}

None == [type |-> "NoneType"]

Dict(d) == [type |-> "dict", val |-> d]

List(l) == [type |-> "list", val |-> l]

Str(t) == [type |-> "str", val |-> t]

(* a generated recommendation set of the requested shape *)
GeneratedRecommendations(status) ==
  Dict([assessment      |-> Dict([overall_score |-> 7, status |-> status]),
        recommendations |-> List(<< [priority |-> "high"], [priority |-> "medium"],
                                    [priority |-> "low"] >>)])

(* YAML documents call_llm can return for the assessment prompt *)
AgentValues ==
  {GeneratedRecommendations(st) : st \in Statuses}
  \cup { None,
          List(<< >>),
          Dict([recommendations |-> List(<< >>)]),
          Dict([assessment |-> Str("good"), recommendations |-> List(<< >>)]),
          Dict([assessment |-> Dict([status |-> "good"]), recommendations |-> None]) }

AgentReplies ==
  { [fenced |-> FALSE, parses |-> FALSE, value |-> None],
    [fenced |-> TRUE,  parses |-> FALSE, value |-> None] }
  \cup {[fenced |-> TRUE, parses |-> TRUE, value |-> v] : v \in AgentValues}

OptimizationAgentNode_prep ==
  [analysis     |-> SharedGet("analysis"),
   ai_responses |-> SharedGet("ai_responses"),
   brand_config |-> SharedGet("brand_config")]

(* the recommendations returned from the except branch of exec *)
FallbackRecommendations(analysis) ==
  LET total_mentions         == Get(analysis, "total_mentions", 0)
      total_organic_mentions == Get(analysis, "total_organic_mentions", 0)
      organic_mention_rate   == Get(analysis, "organic_mention_rate", Frac(0, 1))
  IN  Dict([assessment |->
              Dict([overall_score |-> 5,
                    status  |-> IF total_organic_mentions < 3
                                THEN "needs_improvement" ELSE "good",
                    summary |-> [found   |-> total_mentions,
                                 organic |-> total_organic_mentions,
                                 rate    |-> organic_mention_rate]]),
            recommendations |->
              List(<< [priority  |-> "high",
                       action    |-> "Create more authoritative content",
                       rationale |-> "Low organic mention rate suggests limited AI visibility"] >>),
            content_strategy |->
              List(<< [type |-> "FAQ", goal |-> "Improve AI response accuracy"] >>),
            risks_opportunities |->
              Dict([risks         |-> List(<< "Limited AI visibility" >>),
                    opportunities |-> List(<< "Untapped AI search traffic" >>)])])

OptimizationAgentNode_exec(analysis_data, reply) ==
  IF YamlLoads(reply) THEN reply.value
  ELSE FallbackRecommendations(analysis_data.analysis)

(* exec_res.get("assessment", {}), assessment.get("status", ...) and        *)
(* len(exec_res.get('recommendations', [])) need dicts and a sized value    *)
AgentPostRaises(recs) ==
  IF recs.type # "dict" THEN TRUE
  ELSE IF "assessment" \in DOMAIN recs.val /\ recs.val.assessment.type # "dict" THEN TRUE
  ELSE IF "recommendations" \in DOMAIN recs.val
       THEN recs.val.recommendations.type \notin {"list", "dict", "str"}
       ELSE FALSE

AssessmentStatus(recs) ==
  LET assessment == Get(recs.val, "assessment", Dict(EmptyDict))
  IN  Get(assessment.val, "status", "needs_improvement")

(* the action label post returns *)
OptimizationAgentNode_post(recs) ==
  IF AssessmentStatus(recs) \in {"poor", "needs_improvement"} THEN "needs_attention"
  ELSE IF AssessmentStatus(recs) = "excellent" THEN "performing_well"
  ELSE "default"

OptimizationAgentPrep ==
  /\ At("optimization_agent", "prep")
  /\ prep_res' = OptimizationAgentNode_prep
  /\ phase' = "exec"
  /\ UNCHANGED << shared, successors, curr, exec_res, last_action, trace, run, env,
                  clock, db_file, entry, rerun, front >>

OptimizationAgentExec ==
  /\ At("optimization_agent", "exec")
  /\ \E llm \in CallLLMOutcomes, reply \in AgentReplies :
        /\ ~llm.raised
        /\ ~llm.hung
        /\ exec_res' = OptimizationAgentNode_exec(prep_res, reply)
  /\ phase' = "post"
  /\ UNCHANGED << shared, successors, curr, prep_res, last_action, trace, run, env,
                  clock, db_file, entry, rerun, front >>

OptimizationAgentExecRaises ==
  /\ At("optimization_agent", "exec")
  /\ \E llm \in CallLLMOutcomes : llm.raised
  /\ Raise

OptimizationAgentPost ==
  /\ At("optimization_agent", "post")
  /\ ~AgentPostRaises(exec_res)
  /\ shared' = Put(shared, "recommendations", exec_res)
  /\ StageDone(OptimizationAgentNode_post(exec_res))
  /\ UNCHANGED << successors, env, clock, db_file, entry, rerun, front >>

(* shared["recommendations"] is assigned before the reads that raise *)
OptimizationAgentPostRaises ==
  /\ At("optimization_agent", "post")
  /\ AgentPostRaises(exec_res)
  /\ shared' = Put(shared, "recommendations", exec_res)
  /\ run' = "failed"
  /\ UNCHANGED << successors, curr, phase, prep_res, exec_res, last_action, trace,
                  env, clock, db_file, entry, rerun, front >>

----------------------------------------------------------------------------
(* utils/report_generator.py and nodes.py: ReportGeneratorNode *)

(* round(x * scale) / scale, ties to even: round(x, 2) is RoundTo(x, 100) *)
RoundTo(x, scale) ==
  LET n == x.num * scale
      q == n \div x.den
      r == n - q * x.den
      up == \/ 2 * r > x.den
            \/ (2 * r = x.den /\ q % 2 = 1)
  IN  Frac(IF up THEN q + 1 ELSE q, scale)

(* the per-platform figures generate_performance_report derives *)
PlatformMetrics(responses) ==
  LET analysed(i) == "analysis" \in DOMAIN responses[i]
      RECURSIVE Sum(_, _)
      Sum(i, organic_only) ==
        IF i > Len(responses) THEN 0
        ELSE Sum(i + 1, organic_only)
             + (IF analysed(i)
                   /\ (~organic_only \/ Get(responses[i].analysis, "organic_mention", FALSE))
                THEN Get(responses[i].analysis, "mentions_found", 0)
                ELSE 0)
      scores == SelectSeq([i \in 1..Len(responses) |->
                             IF analysed(i)
                             THEN Get(responses[i].analysis, "sentiment_score", Frac(0, 1))
                             ELSE Frac(0, 1)],
                          LAMBDA f : f.num # 0)
      total  == FracSum(scores)
  IN  [total_responses  |-> Len(responses),
       total_mentions   |-> Sum(1, FALSE),
       organic_mentions |-> Sum(1, TRUE),
       avg_sentiment    |->
          IF scores # << >> THEN RoundTo(Frac(total.num, total.den * Len(scores)), 100)
          ELSE Frac(0, 1),
       organic_rate     |->
          IF responses # << >> THEN RoundTo(Frac(Sum(1, TRUE) * 100, Len(responses)), 10)
          ELSE Frac(0, 1)]

(* the report, as the figures it renders *)
generate_performance_report(analysis_data) ==
  LET ai_responses == analysis_data.ai_responses
      analysis     == analysis_data.analysis
  IN  [brand                  |-> Get(analysis_data.brand_config, "name", "Unknown"),
       total_queries          |-> Get(analysis, "total_responses", 0),
       total_mentions         |-> Get(analysis, "total_mentions", 0),
       total_organic_mentions |-> Get(analysis, "total_organic_mentions", 0),
       organic_mention_rate   |-> Get(analysis, "organic_mention_rate", Frac(0, 1)),
       platform_performance   |->
          [p \in DOMAIN ai_responses |-> PlatformMetrics(ai_responses[p])]]

ReportGeneratorNode_prep ==
  [brand_config    |-> SharedGet("brand_config"),
   ai_responses    |-> SharedGet("ai_responses"),
   analysis        |-> SharedGet("analysis"),
   recommendations |-> Get(shared, "recommendations", Dict(EmptyDict))]

ReportGeneratorNode_exec(report_data) ==
  [html_content |-> generate_performance_report(report_data),
   summary |->
     [total_mentions         |-> Get(report_data.analysis, "total_mentions", 0),
      total_organic_mentions |-> Get(report_data.analysis, "total_organic_mentions", 0),
      avg_sentiment          |-> Get(report_data.analysis, "avg_sentiment", Frac(0, 1)),
      organic_mention_rate   |-> Get(report_data.analysis, "organic_mention_rate", Frac(0, 1)),
      status                 |->
         Get(Get(report_data.recommendations.val, "assessment", Dict(EmptyDict)).val,
             "status", "unknown")]]

(* save_report names the file ai_brand_report_<timestamp>.html *)
ReportGeneratorNode_post(store, report, now) ==
  Put(store, "reports",
      [latest_html  |-> report.html_content,
       filename     |-> [stem |-> "ai_brand_report", timestamp |-> now],
       summary      |-> report.summary,
       generated_at |-> now + 1])

ReportGeneratorPrep ==
  /\ At("report_generator", "prep")
  /\ prep_res' = ReportGeneratorNode_prep
  /\ phase' = "exec"
  /\ UNCHANGED << shared, successors, curr, exec_res, last_action, trace, run, env,
                  clock, db_file, entry, rerun, front >>

ReportGeneratorExec ==
  /\ At("report_generator", "exec")
  /\ exec_res' = ReportGeneratorNode_exec(prep_res)
  /\ phase' = "post"
  /\ UNCHANGED << shared, successors, curr, prep_res, last_action, trace, run, env,
                  clock, db_file, entry, rerun, front >>

ReportGeneratorPost ==
  /\ At("report_generator", "post")
  /\ shared' = ReportGeneratorNode_post(shared, exec_res, clock)
  /\ clock' = clock + 2
  /\ StageDone("default")
  /\ UNCHANGED << successors, env, db_file, entry, rerun, front >>

----------------------------------------------------------------------------
(* utils/database.py and nodes.py: DatabaseStorageNode *)

(* SimpleJSONDB._init_db_structure *)
InitDbStructure(now) ==
  [brands |-> EmptyDict, queries |-> << >>, responses |-> << >>, reports |-> << >>,
   created_at |-> now, version |-> "1.0"]

(* brand_config.get("name", "default").lower().replace(" ", "_") *)
BrandId(brand_config) ==
  LET name == Lower(Get(brand_config, "name", <<"d","e","f","a","u","l","t">>))
  IN  [i \in 1..Len(name) |-> IF name[i] = " " THEN "_" ELSE name[i]]

(* store_ai_response on each response of one platform's list, in order: the *)
(* response objects get "id" and "stored_at"; n responses are in the file   *)
(* already and the first call reads the clock at `now`                      *)
StoreResponses(responses, n, now) ==
  [i \in 1..Len(responses) |->
     Put(Put(responses[i], "id", << responses[i].platform, n + i - 1 >>),
         "stored_at", now + i - 1)]

(* DatabaseStorageNode.exec: what it leaves in the store it was handed, in *)
(* the file, and what it returns                                           *)
DatabaseStorageNode_exec(shared_data, file, now) ==
  LET loaded       == IF file.exists THEN file.data ELSE InitDbStructure(now)
      t0           == IF file.exists THEN now ELSE now + 1
      brand_config == Get(shared_data, "brand_config", EmptyDict)
      has_brand    == DOMAIN brand_config # {}
      stamped      == Put(brand_config, "updated_at", t0)
      t1           == IF has_brand THEN t0 + 1 ELSE t0
      data1        == IF has_brand
                      THEN [loaded EXCEPT !.brands = Put(@, BrandId(brand_config), stamped)]
                      ELSE loaded
      ai_responses == Get(shared_data, "ai_responses", EmptyDict)
      order        == PlatformOrder(ai_responses)
      before(k)    == Len(Flatten([j \in 1..(k - 1) |-> ai_responses[order[j]]]))
      stored       == [p \in DOMAIN ai_responses |->
                         LET k == CHOOSE j \in 1..Len(order) : order[j] = p
                         IN  StoreResponses(ai_responses[p],
                                            Len(loaded.responses) + before(k),
                                            t1 + before(k))]
      count        == Len(FlatResponses(ai_responses))
      t2           == t1 + count
      data2        == [data1 EXCEPT !.responses = @ \o FlatResponses(stored)]
      has_report   == "reports" \in DOMAIN shared_data
      report_data  == [summary         |-> shared_data["reports"].summary,
                       filename        |-> shared_data["reports"].filename,
                       analysis        |-> Get(shared_data, "analysis", EmptyDict),
                       recommendations |-> Get(shared_data, "recommendations", EmptyDict),
                       id              |-> << "report", Len(loaded.reports) >>,
                       generated_at    |-> t2]
      data3        == IF has_report
                      THEN [data2 EXCEPT !.reports = Append(@, report_data)]
                      ELSE data2
      store1       == IF has_brand THEN Put(shared_data, "brand_config", stamped)
                      ELSE shared_data
      store2       == IF "ai_responses" \in DOMAIN shared_data
                      THEN Put(store1, "ai_responses", stored)
                      ELSE store1
  IN  [store  |-> store2,
       file   |-> [exists |-> TRUE, data |-> data3],
       now    |-> IF has_report THEN t2 + 1 ELSE t2,
       result |-> [brand_id         |-> IF has_brand THEN BrandId(brand_config)
                                        ELSE << >>,
                   stored_responses |-> count,
                   report_stored    |-> has_report]]

(* prep returns the store itself *)
DatabaseStoragePrep ==
  /\ At("database_storage", "prep")
  /\ prep_res' = shared
  /\ phase' = "exec"
  /\ UNCHANGED << shared, successors, curr, exec_res, last_action, trace, run, env,
                  clock, db_file, entry, rerun, front >>

(* exec writes through the store it was handed, which is shared *)
DatabaseStorageExec ==
  /\ At("database_storage", "exec")
  /\ LET out == DatabaseStorageNode_exec(shared, db_file, clock)
     IN  /\ shared' = out.store
         /\ prep_res' = out.store
         /\ db_file' = out.file
         /\ clock' = out.now
         /\ exec_res' = out.result
  /\ phase' = "post"
  /\ UNCHANGED << successors, curr, last_action, trace, run, env, entry, rerun, front >>

DatabaseStoragePost ==
  /\ At("database_storage", "post")
  /\ shared' = Put(shared, "storage", exec_res)
  /\ StageDone("default")
  /\ UNCHANGED << successors, env, clock, db_file, entry, rerun, front >>

----------------------------------------------------------------------------
(* flow.py: the graph, and the runs *)

(* create_brand_monitoring_flow with the agent wired by  >>  alone *)
FlowWithDefaultEdgeOnly ==
  [query_generator    |-> [default |-> "platform_querier"],
   platform_querier   |-> [default |-> "response_analyzer"],
   response_analyzer  |-> [default |-> "optimization_agent"],
   optimization_agent |-> [default |-> "report_generator"],
   report_generator   |-> [default |-> "database_storage"],
   database_storage   |-> EmptyDict]

(* create_brand_monitoring_flow without  report_generator >> database_storage *)
FlowEndingAtReport ==
  [query_generator    |-> [default |-> "platform_querier"],
   platform_querier   |-> [default |-> "response_analyzer"],
   response_analyzer  |-> [default |-> "optimization_agent"],
   optimization_agent |-> [needs_attention |-> "report_generator",
                           performing_well |-> "report_generator",
                           default         |-> "report_generator"],
   report_generator   |-> EmptyDict,
   database_storage   |-> EmptyDict]

(* the successors the >> and - "label" >> operators leave on each node *)
create_brand_monitoring_flow ==
  [query_generator    |-> [default |-> "platform_querier"],
   platform_querier   |-> [default |-> "response_analyzer"],
   response_analyzer  |-> [default |-> "optimization_agent"],
   optimization_agent |-> [needs_attention |-> "report_generator",
                           performing_well |-> "report_generator",
                           default         |-> "report_generator"],
   report_generator   |-> [default |-> "database_storage"],
   database_storage   |-> EmptyDict]

(* nodes as the tests create them: no successors *)
BareNodes == [n \in Nodes |-> EmptyDict]

(* the services during one stage of a whole-flow run: each up or down, and *)
(* answering with one text                                                 *)
FlowEnvs ==
  [openai : {"up", "down"}, google : {"up", "down"}, replies : {{t} : t \in Texts}]

(* the services during single-node runs: every call may fail or answer     *)
(* with any of the texts                                                   *)
NodeEnv == [openai |-> "flaky", google |-> "flaky", replies |-> Texts]

(* the categorized queries of a store prepared for a single-node run *)
PreparedQueries ==
  UNION {[1..n -> [category : StoreCategories, queries : {<< q >> : q \in QueryTexts}]] :
           n \in 0..MaxQueries}

NoRerun == [done |-> FALSE]

(* nothing has been answered to the user *)
NoAnswer == [answer |-> "none"]

(* app.py / main.py: shared = {"brand_config": brand_config}; flow.run(shared) *)
InitFlow ==
  /\ entry = "flow"
  /\ shared = [brand_config |-> BrandConfig]
  /\ successors = create_brand_monitoring_flow
  /\ curr = "query_generator"
  /\ env \in FlowEnvs
  /\ clock = 0

(* tests: a store holding brand_config and queries; MultiPlatformQueryNode().run *)
InitNode ==
  /\ entry = "node"
  /\ \E categorized \in PreparedQueries :
        shared = QueryGeneratorNode_post([brand_config |-> BrandConfig], categorized, 0)
  /\ successors = BareNodes
  /\ curr = "platform_querier"
  /\ env = NodeEnv
  /\ clock = 1

Init ==
  /\ (InitFlow \/ InitNode)
  /\ phase = "prep"
  /\ prep_res = << >>
  /\ exec_res = << >>
  /\ last_action = "None"
  /\ trace = << >>
  /\ run = "running"
  /\ db_file = [exists |-> FALSE]
  /\ rerun = NoRerun
  /\ caller = "none"
  /\ form = [brand_name |-> << >>, industry |-> << >>, keywords |-> << >>]
  /\ pc = "flow"
  /\ analysis_sessions = EmptyDict
  /\ served = NoAnswer
  /\ dbs = EmptyDict

(* an outage of a service begins or ends between two stages of a flow run *)
ServiceChange ==
  /\ entry = "flow"
  /\ run = "running"
  /\ phase = "prep"
  /\ curr \in {"query_generator", "platform_querier", "optimization_agent"}
  /\ \E e \in FlowEnvs : e # env /\ env' = e
  /\ UNCHANGED << shared, successors, curr, phase, prep_res, exec_res, last_action,
                  trace, run, clock, db_file, entry, rerun, front >>

(* test_response_analysis: ResponseAnalysisNode().run(shared) on the store *)
(* the previous node left                                                  *)
TestRunAnalysis ==
  /\ entry = "node"
  /\ run = "done"
  /\ Len(trace) = 1
  /\ trace[1].node = "platform_querier"
  /\ curr' = "response_analyzer"
  /\ phase' = "prep"
  /\ run' = "running"
  /\ UNCHANGED << shared, successors, prep_res, exec_res, last_action, trace, env,
                  clock, db_file, entry, rerun, front >>

(* the i-th element of the reordered list is list[order[i]] *)
Reorder(list, order) == [i \in 1..Len(list) |-> list[order[i]]]

(* the aggregation run once more over the analyzed responses, in any order *)
TestAggregateAgain ==
  /\ entry = "node"
  /\ run = "done"
  /\ Len(trace) = 2
  /\ ~rerun.done
  /\ LET analyzed == FlatResponses(shared["ai_responses"])
     IN  \E order \in Permutations(1..Len(analyzed)) :
           /\ shared' = ResponseAnalysisNode_post(shared, Reorder(analyzed, order), clock)
           /\ rerun' = [done   |-> TRUE,
                        order  |-> order,
                        before |-> shared["analysis"],
                        after  |-> shared'["analysis"]]
  /\ clock' = clock + 1
  /\ UNCHANGED << successors, curr, phase, prep_res, exec_res, last_action, trace,
                  run, env, db_file, entry, front >>

Next ==
  \/ ServiceChange
  \/ QueryGeneratorPrep
  \/ QueryGeneratorExec
  \/ QueryGeneratorExecRaises
  \/ QueryGeneratorPost
  \/ QueryGeneratorPostRaises
  \/ PlatformQueryPrep
  \/ PlatformQueryExec
  \/ PlatformQueryPost
  \/ ResponseAnalysisPrep
  \/ ResponseAnalysisExec
  \/ ResponseAnalysisPost
  \/ OptimizationAgentPrep
  \/ OptimizationAgentExec
  \/ OptimizationAgentExecRaises
  \/ OptimizationAgentPost
  \/ OptimizationAgentPostRaises
  \/ ReportGeneratorPrep
  \/ ReportGeneratorExec
  \/ ReportGeneratorPost
  \/ DatabaseStoragePrep
  \/ DatabaseStorageExec
  \/ DatabaseStoragePost
  \/ TestRunAnalysis
  \/ TestAggregateAgain

Spec == Init /\ [][Next]_vars

----------------------------------------------------------------------------
(* the fan-out batch on services that may never answer *)

(* the services during a fan-out run: each either answers or fails call by *)
(* call, or accepts requests and never answers                             *)
HangEnvs ==
  [openai : {"flaky", "hung"}, google : {"flaky", "hung"}, replies : {Texts}]

(* MultiPlatformQueryNode().run(shared) on a store holding the queries *)
HangInit ==
  /\ entry = "node"
  /\ \E categorized \in PreparedQueries :
        shared = QueryGeneratorNode_post([brand_config |-> BrandConfig], categorized, 0)
  /\ successors = BareNodes
  /\ curr = "platform_querier"
  /\ env \in HangEnvs
  /\ clock = 1
  /\ phase = "prep"
  /\ prep_res = << >>
  /\ exec_res = << >>
  /\ last_action = "None"
  /\ trace = << >>
  /\ run = "running"
  /\ db_file = [exists |-> FALSE]
  /\ rerun = NoRerun
  /\ caller = "none"
  /\ form = [brand_name |-> << >>, industry |-> << >>, keywords |-> << >>]
  /\ pc = "flow"
  /\ analysis_sessions = EmptyDict
  /\ served = NoAnswer
  /\ dbs = EmptyDict

HangNext ==
  \/ PlatformQueryPrep
  \/ PlatformQueryExec
  \/ PlatformQueryPost

(* Node.run is one thread running prep, each exec and post to the end: a step *)
(* that can be taken is taken                                                 *)
HangSpec == HangInit /\ [][HangNext]_vars /\ WF_vars(HangNext)

----------------------------------------------------------------------------
(* app.py and main.py: the callers of the flow *)

(* the text as typed, untrimmed *)
Untrimmed(s) == s

(* str.strip() *)
Strip(s) ==
  IF \A i \in 1..Len(s) : s[i] \in Whitespace THEN << >>
  ELSE SubSeq(s, SetMin({i \in 1..Len(s) : s[i] \notin Whitespace}),
                 SetMax({i \in 1..Len(s) : s[i] \notin Whitespace}))

(* str.split(sep) for a separator of one character *)
RECURSIVE Split(_, _)
Split(s, sep) ==
  IF \A i \in 1..Len(s) : s[i] # sep THEN << s >>
  ELSE << SubSeq(s, 1, SetMin({i \in 1..Len(s) : s[i] = sep}) - 1) >>
       \o Split(SubSeq(s, SetMin({i \in 1..Len(s) : s[i] = sep}) + 1, Len(s)), sep)

(* the loop that appends a keyword unless it is the brand name in any case *)
(* or is in the list already                                              *)
RECURSIVE AddKeywords(_, _, _)
AddKeywords(keyword_list, additional_keywords, brand_name) ==
  IF additional_keywords = << >> THEN keyword_list
  ELSE AddKeywords(IF /\ Lower(Head(additional_keywords)) # Lower(brand_name)
                      /\ \A i \in 1..Len(keyword_list) :
                            keyword_list[i] # Head(additional_keywords)
                   THEN Append(keyword_list, Head(additional_keywords))
                   ELSE keyword_list,
                   Tail(additional_keywords), brand_name)

(* app.py: [k.strip() for k in keywords.split('\n') if k.strip()] *)
additional_keywords(keywords) ==
  SelectSeq([i \in 1..Len(Split(keywords, "\n")) |-> Strip(Split(keywords, "\n")[i])],
            LAMBDA k : k # << >>)

(* app.py, analyze: the brand configuration of a form that was accepted *)
analyze_brand_config(brand_name, industry, keywords) ==
  [name     |-> brand_name,
   keywords |-> IF keywords # << >>
                THEN AddKeywords(<< brand_name >>, additional_keywords(keywords),
                                 brand_name)
                ELSE << brand_name >>,
   industry |-> industry]

(* main.py: the keywords typed line by line up to the first empty line (the *)
(* end of what was typed counts as the empty line)                          *)
RECURSIVE TypedKeywords(_)
TypedKeywords(lines) ==
  IF lines = << >> THEN << >>
  ELSE IF Strip(Head(lines)) = << >> THEN << >>
  ELSE << Strip(Head(lines)) >> \o TypedKeywords(Tail(lines))

(* main.py: get_brand_config on what the user types at the three prompts *)
get_brand_config(typed) ==
  IF Strip(typed.brand_name) = << >> THEN None
  ELSE [name     |-> Strip(typed.brand_name),
        keywords |-> AddKeywords(<< Strip(typed.brand_name) >>,
                                 TypedKeywords(Split(typed.keywords, "\n")),
                                 Strip(typed.brand_name)),
        industry |-> IF Strip(typed.industry) = << >>
                     THEN <<"g","e","n","e","r","a","l"," ",
                            "s","e","r","v","i","c","e","s">>
                     ELSE Strip(typed.industry)]

(* what a user submits: no brand name; a blank one; a full form with the   *)
(* keywords " acme \nroof\nroof\n\n"; one with "Roof\nroof"; one without   *)
(* industry and keywords                                                   *)
Forms ==
  { [brand_name |-> << >>,              industry |-> Industry, keywords |-> Industry],
    [brand_name |-> <<" ">>,            industry |-> Industry, keywords |-> << >>],
    [brand_name |-> <<" ">> \o BrandName, industry |-> Industry,
     keywords   |-> <<" ","a","c","m","e"," ","\n","r","o","o","f","\n",
                      "r","o","o","f","\n","\n">>],
    [brand_name |-> BrandName,          industry |-> Industry,
     keywords   |-> <<"R","o","o","f","\n","r","o","o","f">>],
    [brand_name |-> BrandName,          industry |-> << >>,    keywords |-> << >>] }

(* str(uuid.uuid4()): the id of the session analyze starts *)
SessionId == "session-1"

Redirect(to) == [answer |-> "redirect", to |-> to]

(* the brand configuration handed to the thread analyze started *)
ThreadBrandConfig ==
  analyze_brand_config(Strip(form.brand_name), Strip(form.industry), Strip(form.keywords))

(* POST /analyze: the form is refused, or a thread is started on it *)
Analyze ==
  /\ caller = "web"
  /\ pc = "input"
  /\ IF Strip(form.brand_name) = << >> \/ Strip(form.industry) = << >>
     THEN served' = Redirect("index") /\ pc' = "returned"
     ELSE served' = Redirect("loading") /\ pc' = "thread"
  /\ UNCHANGED << shared, successors, curr, phase, prep_res, exec_res, last_action,
                  trace, run, env, clock, db_file, entry, rerun, caller, form,
                  analysis_sessions, dbs >>

(* run_analysis_async up to flow.run(shared) *)
RunAnalysisAsyncBegin ==
  /\ caller = "web"
  /\ pc = "thread"
  /\ analysis_sessions' = Put(analysis_sessions, SessionId,
                              [status     |-> "running",
                               progress   |-> "Generating strategic queries...",
                               start_time |-> clock])
  /\ clock' = clock + 1
  /\ shared' = [brand_config |-> ThreadBrandConfig]
  /\ successors' = create_brand_monitoring_flow
  /\ curr' = "query_generator"
  /\ run' = "running"
  /\ pc' = "flow"
  /\ UNCHANGED << phase, prep_res, exec_res, last_action, trace, env, db_file, entry,
                  rerun, caller, form, served, dbs >>

(* SimpleJSONDB.store_brand_config on the loaded data: the configuration *)
(* itself gets "updated_at"                                              *)
store_brand_config(data, brand_config, now) ==
  [data EXCEPT !.brands = Put(@, BrandId(brand_config),
                              Put(brand_config, "updated_at", now))]

(* {"total_responses": ..., ..., **shared.get("analysis", {})} *)
AnalysisWithDefaults(analysis) ==
  [k \in {"total_responses", "total_mentions", "total_organic_mentions",
          "organic_mention_rate", "avg_sentiment", "category_breakdown"}
         \cup DOMAIN analysis |->
     IF k \in DOMAIN analysis THEN analysis[k]
     ELSE IF k = "category_breakdown" THEN EmptyDict
     ELSE IF k \in {"organic_mention_rate", "avg_sentiment"} THEN Frac(0, 1)
     ELSE 0]

(* the analysis_data of run_analysis_async, read from the store *)
AnalysisData(store, now) ==
  [session_id      |-> SessionId,
   brand_config    |-> Get(store, "brand_config", EmptyDict),
   analysis        |-> AnalysisWithDefaults(Get(store, "analysis", EmptyDict)),
   ai_responses    |-> Get(store, "ai_responses", EmptyDict),
   recommendations |-> Get(store, "recommendations", EmptyDict),
   reports         |-> Get(store, "reports", EmptyDict),
   completed_at    |-> now]

(* run_analysis_async after flow.run returned: the configuration is stored *)
(* once more and the session gets its results                              *)
RunAnalysisAsyncStore ==
  /\ caller = "web"
  /\ pc = "flow"
  /\ run = "done"
  /\ db_file' = [exists |-> TRUE,
                 data   |-> store_brand_config(
                              IF db_file.exists THEN db_file.data
                              ELSE InitDbStructure(clock),
                              shared["brand_config"], clock + 1)]
  /\ shared' = Put(shared, "brand_config",
                   Put(shared["brand_config"], "updated_at", clock + 1))
  /\ analysis_sessions' = Put(analysis_sessions, SessionId,
                              [status          |-> "completed",
                               results         |-> AnalysisData(shared', clock + 2),
                               completion_time |-> clock + 3])
  /\ clock' = clock + 4
  /\ pc' = "returned"
  /\ UNCHANGED << successors, curr, phase, prep_res, exec_res, last_action, trace,
                  run, env, entry, rerun, caller, form, served, dbs >>

(* run_analysis_async: the except branch *)
RunAnalysisAsyncExcept ==
  /\ caller = "web"
  /\ pc = "flow"
  /\ run = "failed"
  /\ analysis_sessions' = Put(analysis_sessions, SessionId,
                              [status          |-> "error",
                               error           |-> "str(e)",
                               completion_time |-> clock])
  /\ clock' = clock + 1
  /\ pc' = "returned"
  /\ UNCHANGED << shared, successors, curr, phase, prep_res, exec_res, last_action,
                  trace, run, env, db_file, entry, rerun, caller, form, served, dbs >>

(* results serving whatever the session holds, whichever its status *)
ResultsOfAnyStatus(session_id) ==
  IF session_id \notin DOMAIN analysis_sessions THEN Redirect("index")
  ELSE [answer |-> "results.html",
        data   |-> Get(analysis_sessions[session_id], "results", EmptyDict)]

(* GET /results/<session_id> *)
results(session_id) ==
  IF session_id \notin DOMAIN analysis_sessions THEN Redirect("index")
  ELSE IF analysis_sessions[session_id].status # "completed" THEN Redirect("index")
  ELSE [answer |-> "results.html", data |-> analysis_sessions[session_id].results]

(* a user asks for the results page of some session, at any time *)
Results ==
  /\ caller = "web"
  /\ \E session_id \in {SessionId, "session-2"} : served' = results(session_id)
  /\ UNCHANGED << shared, successors, curr, phase, prep_res, exec_res, last_action,
                  trace, run, env, clock, db_file, entry, rerun, caller, form, pc,
                  analysis_sessions, dbs >>

Returned(value) == [answer |-> "returned", value |-> value]

(* run_monitoring_session up to flow.run(shared) *)
RunMonitoringSessionBegin ==
  /\ caller = "cli"
  /\ pc = "input"
  /\ IF get_brand_config(form) = None
     THEN /\ served' = Returned(FALSE)
          /\ pc' = "returned"
          /\ UNCHANGED << shared, successors, curr, run >>
     ELSE /\ shared' = [brand_config |-> get_brand_config(form)]
          /\ successors' = create_brand_monitoring_flow
          /\ curr' = "query_generator"
          /\ run' = "running"
          /\ pc' = "flow"
          /\ UNCHANGED served
  /\ UNCHANGED << phase, prep_res, exec_res, last_action, trace, env, clock, db_file,
                  entry, rerun, caller, form, analysis_sessions, dbs >>

(* run_monitoring_session after flow.run returned: the summary is printed *)
RunMonitoringSessionEnd ==
  /\ caller = "cli"
  /\ pc = "flow"
  /\ run = "done"
  /\ served' = Returned(TRUE)
  /\ pc' = "returned"
  /\ UNCHANGED << shared, successors, curr, phase, prep_res, exec_res, last_action,
                  trace, run, env, clock, db_file, entry, rerun, caller, form,
                  analysis_sessions, dbs >>

(* run_monitoring_session: the except branch *)
RunMonitoringSessionExcept ==
  /\ caller = "cli"
  /\ pc = "flow"
  /\ run = "failed"
  /\ served' = Returned(FALSE)
  /\ pc' = "returned"
  /\ UNCHANGED << shared, successors, curr, phase, prep_res, exec_res, last_action,
                  trace, run, env, clock, db_file, entry, rerun, caller, form,
                  analysis_sessions, dbs >>

(* the web application or the command line before anything was submitted: *)
(* no store, no flow, no session                                          *)
SessionInit ==
  /\ caller \in {"web", "cli"}
  /\ form \in Forms
  /\ pc = "input"
  /\ analysis_sessions = EmptyDict
  /\ served = NoAnswer
  /\ entry = "flow"
  /\ shared = EmptyDict
  /\ successors = EmptyDict
  /\ curr = "none"
  /\ phase = "prep"
  /\ prep_res = << >>
  /\ exec_res = << >>
  /\ last_action = "None"
  /\ trace = << >>
  /\ run = "idle"
  /\ env \in FlowEnvs
  /\ clock = 0
  /\ db_file = [exists |-> FALSE]
  /\ rerun = NoRerun
  /\ dbs = EmptyDict

SessionNext ==
  \/ Analyze
  \/ RunAnalysisAsyncBegin
  \/ RunAnalysisAsyncStore
  \/ RunAnalysisAsyncExcept
  \/ Results
  \/ RunMonitoringSessionBegin
  \/ RunMonitoringSessionEnd
  \/ RunMonitoringSessionExcept
  \/ ServiceChange
  \/ QueryGeneratorPrep
  \/ QueryGeneratorExec
  \/ QueryGeneratorExecRaises
  \/ QueryGeneratorPost
  \/ QueryGeneratorPostRaises
  \/ PlatformQueryPrep
  \/ PlatformQueryExec
  \/ PlatformQueryPost
  \/ ResponseAnalysisPrep
  \/ ResponseAnalysisExec
  \/ ResponseAnalysisPost
  \/ OptimizationAgentPrep
  \/ OptimizationAgentExec
  \/ OptimizationAgentExecRaises
  \/ OptimizationAgentPost
  \/ OptimizationAgentPostRaises
  \/ ReportGeneratorPrep
  \/ ReportGeneratorExec
  \/ ReportGeneratorPost
  \/ DatabaseStoragePrep
  \/ DatabaseStorageExec
  \/ DatabaseStoragePost

SessionSpec == SessionInit /\ [][SessionNext]_vars

----------------------------------------------------------------------------
(* app.py: the pages that look a session up while its thread runs *)

(* GET /loading/<session_id> *)
loading(session_id) ==
  IF session_id \notin DOMAIN analysis_sessions
  THEN [answer |-> "redirect", to |-> "index", flash |-> "Analysis session not found"]
  ELSE [answer |-> "loading.html", session_id |-> session_id]

(* GET /api/status/<session_id> *)
get_status(session_id) ==
  IF session_id \notin DOMAIN analysis_sessions
  THEN [answer |-> "json", code |-> 404, status |-> "not_found"]
  ELSE IF analysis_sessions[session_id].status = "completed"
  THEN [answer |-> "json", code |-> 200, status |-> "completed",
        redirect_url |-> << "results", session_id >>]
  ELSE IF analysis_sessions[session_id].status = "error"
  THEN [answer |-> "json", code |-> 200, status |-> "error",
        error |-> Get(analysis_sessions[session_id], "error", "Unknown error")]
  ELSE [answer |-> "json", code |-> 200, status |-> "running",
        progress |-> Get(analysis_sessions[session_id], "progress", "Processing...")]

(* the browser follows the redirect analyze returned: thread.start() came *)
(* before the return, the thread's first statement need not have          *)
Loading ==
  /\ caller = "web"
  /\ pc # "input"
  /\ Strip(form.brand_name) # << >>
  /\ Strip(form.industry) # << >>
  /\ served' = loading(SessionId)
  /\ UNCHANGED << shared, successors, curr, phase, prep_res, exec_res, last_action,
                  trace, run, env, clock, db_file, entry, rerun, caller, form, pc,
                  analysis_sessions, dbs >>

(* the loading page polls the status of its session *)
GetStatus ==
  /\ caller = "web"
  /\ pc # "input"
  /\ Strip(form.brand_name) # << >>
  /\ Strip(form.industry) # << >>
  /\ served' = get_status(SessionId)
  /\ UNCHANGED << shared, successors, curr, phase, prep_res, exec_res, last_action,
                  trace, run, env, clock, db_file, entry, rerun, caller, form, pc,
                  analysis_sessions, dbs >>

(* the web application before a form that analyze accepts is submitted *)
PollInit ==
  /\ SessionInit
  /\ caller = "web"
  /\ Strip(form.brand_name) # << >>
  /\ Strip(form.industry) # << >>

PollNext ==
  \/ Analyze
  \/ RunAnalysisAsyncBegin
  \/ RunAnalysisAsyncStore
  \/ RunAnalysisAsyncExcept
  \/ Loading
  \/ GetStatus
  \/ ServiceChange
  \/ QueryGeneratorPrep
  \/ QueryGeneratorExec
  \/ QueryGeneratorExecRaises
  \/ QueryGeneratorPost
  \/ QueryGeneratorPostRaises
  \/ PlatformQueryPrep
  \/ PlatformQueryExec
  \/ PlatformQueryPost
  \/ ResponseAnalysisPrep
  \/ ResponseAnalysisExec
  \/ ResponseAnalysisPost
  \/ OptimizationAgentPrep
  \/ OptimizationAgentExec
  \/ OptimizationAgentExecRaises
  \/ OptimizationAgentPost
  \/ OptimizationAgentPostRaises
  \/ ReportGeneratorPrep
  \/ ReportGeneratorExec
  \/ ReportGeneratorPost
  \/ DatabaseStoragePrep
  \/ DatabaseStorageExec
  \/ DatabaseStoragePost

PollSpec == PollInit /\ [][PollNext]_vars

----------------------------------------------------------------------------
(* utils/database.py: two runs storing at the same time, as two threads of *)
(* app.py do, each through the SimpleJSONDB its storage stage creates      *)

Runs == {1, 2}

(* the responses in the store of run r: one per query and platform *)
RunResponses(r) ==
  [i \in 1..(MaxQueries * Len(platforms)) |->
     [platform  |-> platforms[((i - 1) % Len(platforms)) + 1],
      query     |-> QueryGeneric,
      response  |-> TextNoMention,
      status    |-> "success",
      timestamp |-> << r, i >>]]

(* the report_data DatabaseStorageNode.exec builds from the store of run r *)
RunReport(r) ==
  [summary |-> [status |-> "unknown"], filename |-> << "report", r >>,
   analysis |-> EmptyDict, recommendations |-> EmptyDict]

(* SimpleJSONDB.store_ai_response on self.data *)
store_ai_response(data, response_data, now) ==
  [data EXCEPT !.responses =
     Append(@, Put(Put(response_data, "id", << response_data.platform, Len(@) >>),
                   "stored_at", now))]

(* SimpleJSONDB.store_report on self.data *)
store_report(data, report_data, now) ==
  [data EXCEPT !.reports =
     Append(@, Put(Put(report_data, "id", << "report", Len(@) >>),
                   "generated_at", now))]

(* db = SimpleJSONDB(): __init__ loads the file, or starts an empty structure *)
DbOpen ==
  \E r \in Runs :
     /\ r \notin DOMAIN dbs
     /\ dbs' = Put(dbs, r, [data   |-> IF db_file.exists THEN db_file.data
                                       ELSE InitDbStructure(clock),
                            stored |-> 0,
                            step   |-> "brand"])
     /\ clock' = clock + 1
     /\ UNCHANGED << shared, successors, curr, phase, prep_res, exec_res, last_action,
                     trace, run, env, db_file, entry, rerun, caller, form, pc,
                     analysis_sessions, served >>

(* what a store_... call leaves: self.data changed, then save() writes all *)
(* of self.data over the file                                             *)
DbStored(r, data, stored, step) ==
  /\ dbs' = Put(dbs, r, [data |-> data, stored |-> stored, step |-> step])
  /\ db_file' = [exists |-> TRUE, data |-> data]
  /\ clock' = clock + 1
  /\ UNCHANGED << shared, successors, curr, phase, prep_res, exec_res, last_action,
                  trace, run, env, entry, rerun, caller, form, pc,
                  analysis_sessions, served >>

(* brand_id = db.store_brand_config(brand_config) *)
DbStoreBrandConfig ==
  \E r \in DOMAIN dbs :
     /\ dbs[r].step = "brand"
     /\ DbStored(r, store_brand_config(dbs[r].data, BrandConfig, clock), 0, "responses")

(* response_id = db.store_ai_response(response), for the next response *)
DbStoreAiResponse ==
  \E r \in DOMAIN dbs :
     /\ dbs[r].step = "responses"
     /\ dbs[r].stored < Len(RunResponses(r))
     /\ DbStored(r,
                 store_ai_response(dbs[r].data, RunResponses(r)[dbs[r].stored + 1], clock),
                 dbs[r].stored + 1, "responses")

(* report_id = db.store_report(report_data), after the last response *)
DbStoreReport ==
  \E r \in DOMAIN dbs :
     /\ dbs[r].step = "responses"
     /\ dbs[r].stored = Len(RunResponses(r))
     /\ DbStored(r, store_report(dbs[r].data, RunReport(r), clock), dbs[r].stored, "done")

(* two analysis threads, both about to run the exec of their storage stage; *)
(* the file does not exist yet                                             *)
StoreInit ==
  /\ caller = "web"
  /\ dbs = EmptyDict
  /\ db_file = [exists |-> FALSE]
  /\ clock = 0
  /\ form = [brand_name |-> BrandName, industry |-> Industry, keywords |-> << >>]
  /\ pc = "flow"
  /\ analysis_sessions = EmptyDict
  /\ served = NoAnswer
  /\ entry = "flow"
  /\ shared = EmptyDict
  /\ successors = create_brand_monitoring_flow
  /\ curr = "database_storage"
  /\ phase = "exec"
  /\ prep_res = << >>
  /\ exec_res = << >>
  /\ last_action = "None"
  /\ trace = << >>
  /\ run = "idle"
  /\ env = NodeEnv
  /\ rerun = NoRerun

StoreNext ==
  \/ DbOpen
  \/ DbStoreBrandConfig
  \/ DbStoreAiResponse
  \/ DbStoreReport

StoreSpec == StoreInit /\ [][StoreNext]_vars

----------------------------------------------------------------------------
(* flow.run(shared) on a store that lacks keys *)

(* shared["brand_config"]["name"] in post's loop: KeyError on the first query *)
QueryGeneratorPostKeyError ==
  /\ At("query_generator", "post")
  /\ \/ "brand_config" \notin DOMAIN shared
     \/ "name" \notin DOMAIN SharedGet("brand_config")
  /\ \E k \in 1..Len(exec_res) : Len(exec_res[k].queries) > 0
  /\ Raise

(* the store is empty, or holds a brand_config without a name, or the full *)
(* brand_config                                                            *)
AbsentInit ==
  /\ entry = "flow"
  /\ shared \in {EmptyDict,
                 [brand_config |-> [industry |-> Industry]],
                 [brand_config |-> BrandConfig]}
  /\ successors = create_brand_monitoring_flow
  /\ curr = "query_generator"
  /\ env \in FlowEnvs
  /\ clock = 0
  /\ phase = "prep"
  /\ prep_res = << >>
  /\ exec_res = << >>
  /\ last_action = "None"
  /\ trace = << >>
  /\ run = "running"
  /\ db_file = [exists |-> FALSE]
  /\ rerun = NoRerun
  /\ caller = "none"
  /\ form = [brand_name |-> << >>, industry |-> << >>, keywords |-> << >>]
  /\ pc = "flow"
  /\ analysis_sessions = EmptyDict
  /\ served = NoAnswer
  /\ dbs = EmptyDict

AbsentNext ==
  \/ ServiceChange
  \/ QueryGeneratorPrep
  \/ QueryGeneratorExec
  \/ QueryGeneratorExecRaises
  \/ QueryGeneratorPost
  \/ QueryGeneratorPostRaises
  \/ QueryGeneratorPostKeyError
  \/ PlatformQueryPrep
  \/ PlatformQueryExec
  \/ PlatformQueryPost
  \/ ResponseAnalysisPrep
  \/ ResponseAnalysisExec
  \/ ResponseAnalysisPost
  \/ OptimizationAgentPrep
  \/ OptimizationAgentExec
  \/ OptimizationAgentExecRaises
  \/ OptimizationAgentPost
  \/ OptimizationAgentPostRaises
  \/ ReportGeneratorPrep
  \/ ReportGeneratorExec
  \/ ReportGeneratorPost
  \/ DatabaseStoragePrep
  \/ DatabaseStorageExec
  \/ DatabaseStoragePost

AbsentSpec == AbsentInit /\ [][AbsentNext]_vars

----------------------------------------------------------------------------
(* utils/pdf_generator.py: PDFGenerator.get_filename, as the test calls it *)

MaxNameLen == 3

(* the characters c with c.isalnum() among those brand names are made of *)
Alnum ==
  {"a","b","c","d","e","f","g","h","i","j","k","l","m","n","o","p","q","r","s",
   "t","u","v","w","x","y","z","A","B","C","D","E","F","G","H","I","J","K","L",
   "M","N","O","P","Q","R","S","T","U","V","W","X","Y","Z","0","1","2","3","4",
   "5","6","7","8","9"}

(* datetime.now().strftime("%Y%m%d_%H%M%S"), `now` being the seconds since *)
(* 2026-01-01 00:00:00, within that day                                    *)
strftime(now) ==
  LET digit == << "0", "1", "2", "3", "4", "5", "6", "7", "8", "9" >>
      two(n) == << digit[(n \div 10) + 1], digit[(n % 10) + 1] >>
  IN  << "2", "0", "2", "6", "0", "1", "0", "1", "_" >>
        \o two(now \div 3600) \o two((now \div 60) % 60) \o two(now % 60)

get_filename(brand_name, now) ==
  LET kept     == SelectSeq(brand_name,
                            LAMBDA c : c \in Alnum \/ c \in {" ", "-", "_"})
      rstripped == SubSeq(kept, 1,
                          SetMax({0} \cup {i \in DOMAIN kept : kept[i] \notin Whitespace}))
      safe_brand_name == [i \in DOMAIN rstripped |->
                            IF rstripped[i] = " " THEN "_" ELSE rstripped[i]]
  IN  safe_brand_name
        \o << "_", "b", "r", "a", "n", "d", "_", "r", "e", "p", "o", "r", "t", "_" >>
        \o strftime(now) \o << ".", "p", "d", "f" >>

(* the brand names get_filename is given: the two of the test, and every *)
(* short name made of a letter, a space and two special characters        *)
BrandNames ==
  {<< "T", "e", "s", "t", " ", "B", "r", "a", "n", "d" >>,
   << "B", "r", "a", "n", "d", " ", "&", " ", "C", "o", ".", " ", "(", "L", "L", "C", ")" >>}
  \cup UNION {[1..n -> {"B", " ", "&", "."}] : n \in 0..MaxNameLen}

(* setup_method: PDFGenerator(self.test_dir), before a call of get_filename *)
FilenameInit ==
  /\ caller = "test"
  /\ form \in [brand_name : BrandNames, industry : {<< >>}, keywords : {<< >>}]
  /\ pc = "input"
  /\ served = NoAnswer
  /\ clock \in {0, 59, 3600, 86399}
  /\ entry = "node"
  /\ shared = EmptyDict
  /\ successors = BareNodes
  /\ curr = "none"
  /\ env = NodeEnv
  /\ phase = "prep"
  /\ prep_res = << >>
  /\ exec_res = << >>
  /\ last_action = "None"
  /\ trace = << >>
  /\ run = "idle"
  /\ db_file = [exists |-> FALSE]
  /\ rerun = NoRerun
  /\ analysis_sessions = EmptyDict
  /\ dbs = EmptyDict

(* filename = self.pdf_generator.get_filename(brand_name) *)
TestFilenameGeneration ==
  /\ caller = "test"
  /\ pc = "input"
  /\ served' = Returned(get_filename(form.brand_name, clock))
  /\ pc' = "returned"
  /\ UNCHANGED << shared, successors, curr, phase, prep_res, exec_res, last_action,
                  trace, run, env, clock, db_file, entry, rerun, caller, form,
                  analysis_sessions, dbs >>

FilenameSpec == FilenameInit /\ [][TestFilenameGeneration]_vars

----------------------------------------------------------------------------
(* Properties of the runs *)

(* the stage of `node` has run to the end of its post *)
Completed(node) == \E i \in 1..Len(trace) : trace[i].node = node

(* the responses in the store, platform by platform *)
Stored == FlatResponses(SharedGet("ai_responses"))

(* the same responses as a set *)
Responses == LET stored == Stored IN {stored[i] : i \in 1..Len(stored)}

Analysed(r) == "analysis" \in DOMAIN r

IdentityOrder == \A i \in DOMAIN rerun.order : rerun.order[i] = i

(* C1: once MultiPlatformQueryNode has run over N queries, the store holds  *)
(* N responses under chatgpt and N under gemini, each platform holding as   *)
(* many responses to a query as the query occurs in the list, whatever      *)
(* status each call ended with.                                             *)
FanOutOnePerPair ==
  Completed("platform_querier") =>
    LET queries      == shared["queries"]["all_queries"]
        ai_responses == shared["ai_responses"]
    IN  /\ DOMAIN ai_responses = {"chatgpt", "gemini"}
        /\ \A p \in DOMAIN ai_responses :
              /\ Len(ai_responses[p]) = Len(queries)
              /\ \A j \in 1..Len(ai_responses[p]) :
                    /\ ai_responses[p][j].platform = p
                    /\ ai_responses[p][j].status \in {"success", "fallback", "error"}
              /\ \A i \in 1..Len(queries) :
                    Cardinality({j \in 1..Len(ai_responses[p]) :
                                   ai_responses[p][j].query = queries[i].query})
                    = Cardinality({k \in 1..Len(queries) :
                                     queries[k].query = queries[i].query})

(* a fan-out in which one call ended in error and another in the fallback *)
FanOutWithFailures ==
  /\ Completed("platform_querier")
  /\ Len(shared["queries"]["all_queries"]) >= 1
  /\ \E r, s \in Responses : r.status = "error" /\ s.status = "fallback"

(* C2: after the analysis stage, analysis.total_responses is the number of *)
(* responses whose status is success.                                      *)
TotalResponsesCountsSuccesses ==
  Completed("response_analyzer") =>
    LET stored == Stored
    IN  shared["analysis"]["total_responses"]
          = Cardinality({i \in 1..Len(stored) : stored[i].status = "success"})

(* C3: after the analysis stage, organic_mention_rate lies in [0, 1], and *)
(* is 0 when total_responses is 0.                                        *)
OrganicRateWithinUnitInterval ==
  Completed("response_analyzer") =>
    LET analysis == shared["analysis"]
        rate     == analysis["organic_mention_rate"]
    IN  /\ 0 <= rate.num
        /\ rate.num <= rate.den
        /\ analysis["total_responses"] = 0 => rate.num = 0

(* C4: after the analysis stage, when every analyzed response carries one *)
(* of the four recognized categories, the category totals add up to       *)
(* total_responses.                                                       *)
CategoryTotalsSumToTotalResponses ==
  ( /\ Completed("response_analyzer")
    /\ \A r \in Responses :
          Analysed(r) => r["analysis"]["query_category"] \in RecognizedCategories )
  =>
    LET analysis == shared["analysis"]
        by       == analysis["category_breakdown"]
    IN  by["category_exploration"].total + by["comparison_research"].total
          + by["problem_solving"].total + by["direct_brand"].total
        = analysis["total_responses"]

(* C5: after the analysis stage, the mentions of the four categories add  *)
(* up to total_mentions and their organic mentions to                     *)
(* total_organic_mentions, whatever the responses were.                   *)
CategorySumsEqualFlatTotals ==
  Completed("response_analyzer") =>
    LET analysis == shared["analysis"]
        by       == analysis["category_breakdown"]
    IN  /\ by["category_exploration"].mentions + by["comparison_research"].mentions
             + by["problem_solving"].mentions + by["direct_brand"].mentions
           = analysis["total_mentions"]
        /\ by["category_exploration"].organic_mentions
             + by["comparison_research"].organic_mentions
             + by["problem_solving"].organic_mentions
             + by["direct_brand"].organic_mentions
           = analysis["total_organic_mentions"]

(* an analysis over counted mentions and over a response that mentions the *)
(* brand under a category outside the four                                 *)
MentionsOutsideTheFourCategories ==
  /\ Completed("response_analyzer")
  /\ shared["analysis"]["total_mentions"] > 0
  /\ \E r \in Responses :
        /\ Analysed(r)
        /\ r["analysis"]["query_category"] \notin RecognizedCategories
        /\ r["analysis"]["mentions_found"] > 0

(* C6: every response exec has analyzed has organic_mention true exactly  *)
(* when its mentions_found > 0 and its query did not mention the brand.   *)
OrganicIffUnpromptedMention ==
  /\ \A r \in Responses :
        Analysed(r) =>
          ( r["analysis"]["organic_mention"]
            <=> ( /\ r["analysis"]["mentions_found"] > 0
                  /\ ~Get(r, "brand_mentioned_in_query", FALSE) ) )
  /\ At("response_analyzer", "exec") \/ At("response_analyzer", "post") =>
        \A i \in 1..Len(exec_res) :
           Analysed(exec_res[i]) =>
             ( exec_res[i]["analysis"]["organic_mention"]
               <=> ( /\ exec_res[i]["analysis"]["mentions_found"] > 0
                     /\ ~Get(exec_res[i], "brand_mentioned_in_query", FALSE) ) )

(* exec has analyzed a response that mentions the brand in answer to a *)
(* query that named it                                                  *)
PromptedMentionAnalysed ==
  \E r \in Responses :
     /\ Analysed(r)
     /\ r["analysis"]["mentions_found"] > 0
     /\ r["brand_mentioned_in_query"]
     /\ ~r["analysis"]["organic_mention"]

(* C7: after the analysis stage, a response in the store carries an      *)
(* analysis record if its status is success and none if it is fallback   *)
(* or error.                                                             *)
AnalysisExactlyOnSuccess ==
  Completed("response_analyzer") =>
    \A r \in Responses : Analysed(r) <=> r.status = "success"

(* the analysis stage has run over a success and over a fallback *)
AnalysedAndPassedThrough ==
  /\ Completed("response_analyzer")
  /\ \E r, s \in Responses :
        /\ r.status = "success" /\ Analysed(r)
        /\ s.status = "fallback" /\ ~Analysed(s)

(* C8: post over the analyzed responses in another order gives the same *)
(* total_responses, total_mentions, total_organic_mentions and category *)
(* counters.                                                            *)
AggregationOrderIndependent ==
  rerun.done =>
    /\ rerun.after["total_responses"] = rerun.before["total_responses"]
    /\ rerun.after["total_mentions"] = rerun.before["total_mentions"]
    /\ rerun.after["total_organic_mentions"] = rerun.before["total_organic_mentions"]
    /\ rerun.after["category_breakdown"] = rerun.before["category_breakdown"]

(* post has run again over two responses swapped, one with mentions and *)
(* one without                                                          *)
AggregatedInReverse ==
  /\ rerun.done
  /\ Len(rerun.order) = 2
  /\ rerun.order[1] = 2
  /\ \E r, s \in Responses :
        /\ Analysed(r) /\ Analysed(s)
        /\ r["analysis"]["mentions_found"] # s["analysis"]["mentions_found"]
  /\ rerun.before["total_mentions"] > 0

AgentRoutesToReportThenStorage ==
  entry = "flow" =>
    \A i \in 1..Len(trace) :
       trace[i].node = "optimization_agent" =>
         /\ trace[i].action \in {"needs_attention", "performing_well", "default"}
         /\ i = Len(trace) => curr = "report_generator" /\ run = "running"
         /\ i < Len(trace) => trace[i + 1].node = "report_generator"
         /\ i + 1 = Len(trace) => curr = "database_storage" /\ run = "running"
         /\ i + 1 < Len(trace) => trace[i + 2].node = "database_storage"

(* a run of the flow that ended after the agent returned performing_well *)
RoutedOnPerformingWell ==
  /\ entry = "flow"
  /\ run = "done"
  /\ Len(trace) = 6
  /\ trace[4] = [node |-> "optimization_agent", action |-> "performing_well"]
  /\ trace[5].node = "report_generator"
  /\ trace[6].node = "database_storage"

(* the agent's post was entered and raised instead of returning a label *)
AgentPostFailed ==
  curr = "optimization_agent" /\ phase = "post" /\ run = "failed"

(* C11: OptimizationAgentNode.post returns needs_attention when the status  *)
(* of the assessment is poor or needs_improvement, performing_well when it  *)
(* is excellent and default for every other status, and it returns one of   *)
(* the three labels for every recommendation set exec hands it.             *)
AgentPostLabelsEveryRecommendationSet ==
  /\ \A i \in 1..Len(trace) :
        trace[i].node = "optimization_agent" =>
          LET status == AssessmentStatus(shared["recommendations"])
          IN  /\ status \in {"poor", "needs_improvement"}
                   => trace[i].action = "needs_attention"
              /\ status = "excellent" => trace[i].action = "performing_well"
              /\ status \notin {"poor", "needs_improvement", "excellent"}
                   => trace[i].action = "default"
  /\ ~AgentPostFailed

(* the shape the assessment prompt asks for: a mapping holding a mapping  *)
(* under assessment and a list under recommendations                      *)
RequestedShape(recs) ==
  IF recs.type # "dict" THEN FALSE
  ELSE IF {"assessment", "recommendations"} \subseteq DOMAIN recs.val
       THEN recs.val.assessment.type = "dict" /\ recs.val.recommendations.type = "list"
       ELSE FALSE

(* C12: whenever the text-generation output for the assessment is missing *)
(* or malformed (no fenced block, unparseable YAML, or YAML without the   *)
(* requested shape), what exec returns is the rule-based recommendation   *)
(* set (status needs_improvement if total_organic_mentions < 3 else good, *)
(* one recommendation of priority high), and the run goes on to the       *)
(* report stage.                                                          *)
AgentFallsBackOnMalformedOutput ==
  /\ curr = "optimization_agent" /\ phase = "post" =>
        /\ \/ RequestedShape(exec_res)
           \/ exec_res = FallbackRecommendations(prep_res.analysis)
        /\ run # "failed"
  /\ \A i \in 1..Len(trace) :
        trace[i].node = "optimization_agent" =>
          \/ RequestedShape(shared["recommendations"])
          \/ shared["recommendations"] = FallbackRecommendations(shared["analysis"])

(* the fan-out has run and every provider call ended in status error *)
EveryCallFailed ==
  /\ Completed("platform_querier")
  /\ Responses # {}
  /\ \A r \in Responses : r.status = "error"

(* C13: in a run where every provider call returns status error, the      *)
(* analysis has total_responses = 0 and organic_mention_rate = 0, and the  *)
(* assessment, made while text generation is still failing, is the         *)
(* rule-based one with status needs_improvement rather than a failed run.  *)
AllErrorsGiveEmptyAnalysisAndRuleBasedAssessment ==
  EveryCallFailed =>
    /\ Completed("response_analyzer") =>
          /\ shared["analysis"]["total_responses"] = 0
          /\ shared["analysis"]["organic_mention_rate"].num = 0
    /\ curr = "optimization_agent" /\ env.openai = "down" => run # "failed"
    /\ Completed("optimization_agent") /\ env.openai = "down" =>
          /\ shared["recommendations"] = FallbackRecommendations(shared["analysis"])
          /\ AssessmentStatus(shared["recommendations"]) = "needs_improvement"

FourCategoriesOfFiveQueries(categorized) ==
  /\ \A c \in 1..Len(required_categories) :
        \E k \in 1..Len(categorized) :
           /\ categorized[k].category = required_categories[c]
           /\ Len(categorized[k].queries) = QueriesPerCategory
  /\ \A k \in 1..Len(categorized) :
        \A i \in 1..Len(categorized[k].queries) : categorized[k].queries[i] # MappingItem

(* C15: when the text-generation output for the query synthesis does not  *)
(* parse into four categories of five queries each, what exec returns is  *)
(* the hardcoded fallback set of 4 x 5 = 20 queries, and the run goes on  *)
(* to the fan-out stage instead of failing.                               *)
QueryFallbackOnUnparsedOutput ==
  curr = "query_generator" /\ phase = "post" =>
    /\ \/ FourCategoriesOfFiveQueries(exec_res)
       \/ exec_res = fallback_queries(prep_res["name"], prep_res["industry"])
    /\ run # "failed"

(* C19: no stage modifies the brand configuration in the shared store: at *)
(* every point of a run, and after it, its keys and values are those the  *)
(* caller passed in.                                                      *)
BrandConfigUnmodified ==
  shared["brand_config"] = BrandConfig

(* C20: a provider call whose primary call failed while a substitute answer *)
(* was produced has status fallback and a non-empty response text, never    *)
(* error; a result has status error only when neither the primary call nor  *)
(* a substitute gave an answer, and then its text is empty.                 *)
SubstituteReportedAsFallback ==
  curr = "platform_querier" /\ phase \in {"exec", "post"} =>
    \A i \in 1..Len(exec_res) :
       /\ exec_res[i].status \in {"success", "fallback", "error"}
       /\ exec_res[i].status = "fallback" =>
             /\ exec_res[i].platform = "gemini"
             /\ Len(exec_res[i].response) > 0
             /\ env.google # "up" /\ env.openai # "down"
       /\ exec_res[i].status = "error" =>
             /\ exec_res[i].response = << >>
             /\ env.openai # "up"
             /\ exec_res[i].platform = "gemini" => env.google # "up"
       /\ exec_res[i].platform = "gemini" /\ env.google = "down" /\ env.openai = "up"
             => exec_res[i].status = "fallback"

(* Gemini is down and OpenAI up during the fan-out: the answer for gemini *)
(* is the simulated one                                                    *)
GeminiAnsweredBySubstitute ==
  /\ At("platform_querier", "post")
  /\ env.google = "down" /\ env.openai = "up"
  /\ \E i \in 1..Len(exec_res) :
        /\ exec_res[i].platform = "gemini"
        /\ exec_res[i].status = "fallback"
        /\ SubSeq(exec_res[i].response, 1, Len(Simulated)) = Simulated

(* the six stages of the flow, in the order a complete run goes through them *)
AllStages ==
  << "query_generator", "platform_querier", "response_analyzer",
     "optimization_agent", "report_generator", "database_storage" >>

FlowRanAllStages ==
  /\ run = "done"
  /\ Len(trace) = Len(AllStages)
  /\ \A i \in 1..Len(trace) : trace[i].node = AllStages[i]

(* what the registry holds and what was served fit the run *)
SessionFitsRun ==
  /\ \A s \in DOMAIN analysis_sessions :
        /\ analysis_sessions[s].status \in {"running", "completed", "error"}
        /\ analysis_sessions[s].status = "completed" =>
              /\ FlowRanAllStages
              /\ {"analysis", "ai_responses", "recommendations", "reports"}
                    \subseteq DOMAIN shared
              /\ analysis_sessions[s].results["analysis"] = shared["analysis"]
              /\ analysis_sessions[s].results["ai_responses"] = shared["ai_responses"]
              /\ analysis_sessions[s].results["recommendations"]
                    = shared["recommendations"]
              /\ analysis_sessions[s].results["reports"] = shared["reports"]
        /\ analysis_sessions[s].status # "completed" =>
              "results" \notin DOMAIN analysis_sessions[s]
        /\ analysis_sessions[s].status = "error" => run = "failed"
  /\ caller = "web" /\ pc = "returned" /\ run = "failed" =>
        /\ SessionId \in DOMAIN analysis_sessions
        /\ analysis_sessions[SessionId].status = "error"
  /\ served.answer = "results.html" =>
        \E s \in DOMAIN analysis_sessions :
           /\ analysis_sessions[s].status = "completed"
           /\ served.data = analysis_sessions[s].results
  /\ served = Returned(TRUE) => FlowRanAllStages
  /\ served = Returned(FALSE) => run \in {"idle", "failed"}

(* a session that is completed or in error stays as it is *)
TerminalSessionKept ==
  \A s \in DOMAIN analysis_sessions :
     analysis_sessions[s].status \in {"completed", "error"} =>
       /\ s \in DOMAIN analysis_sessions'
       /\ analysis_sessions'[s] = analysis_sessions[s]

(* C16: a session is completed only after flow.run went through all the   *)
(* stages, and then carries analysis, ai_responses, recommendations and   *)
(* reports; an exception leaves it in status error without results; a     *)
(* completed or failed session never changes; /results serves data only   *)
(* of a completed session; the CLI session returns True only after a      *)
(* complete run.                                                          *)
CompleteResultOrTerminalError ==
  []SessionFitsRun /\ [][TerminalSessionKept]_vars

(* the results page of a completed session has been served *)
ResultsOfCompletedSessionServed ==
  /\ SessionId \in DOMAIN analysis_sessions
  /\ analysis_sessions[SessionId].status = "completed"
  /\ served.answer = "results.html"
  /\ served.data["reports"] = shared["reports"]

(* the brand name is empty once trimmed *)
BrandNameAbsent == \A i \in 1..Len(form.brand_name) : form.brand_name[i] \in Whitespace

(* C17: when the brand name is empty after trimming, no run is started:  *)
(* no thread and no session for /analyze, no flow for the CLI session;   *)
(* the shared store, the registry and the database stay as they were.    *)
NoRunWithoutBrandName ==
  BrandNameAbsent /\ caller \in {"web", "cli"} =>
    /\ pc \in {"input", "returned"}
    /\ run = "idle"
    /\ shared = EmptyDict
    /\ successors = EmptyDict
    /\ analysis_sessions = EmptyDict
    /\ db_file = [exists |-> FALSE]
    /\ trace = << >>

(* a form whose brand name is blanks only has been refused *)
BlankBrandNameRefused ==
  /\ BrandNameAbsent
  /\ form.brand_name # << >>
  /\ pc = "returned"
  /\ served \in {Redirect("index"), Returned(FALSE)}

(* C18: the brand configuration built from what the caller typed has the *)
(* brand name as the first of its keywords, and no two of its keywords   *)
(* are equal when case is ignored.                                       *)
KeywordsDistinctIgnoringCase ==
  "brand_config" \in DOMAIN shared =>
    /\ shared["brand_config"]["keywords"][1] = shared["brand_config"]["name"]
    /\ \A i, j \in 1..Len(shared["brand_config"]["keywords"]) :
          i # j => Lower(shared["brand_config"]["keywords"][i])
                     # Lower(shared["brand_config"]["keywords"][j])


----------------------------------------------------------------------------
(* the item exec is on calls a service that never answers *)
CallNeverReturns ==
  /\ At("platform_querier", "exec")
  /\ Len(exec_res) < Len(prep_res)
  /\ \A primary \in GeminiOutcomes, llm \in CallLLMOutcomes :
        ~CallReturns(prep_res[Len(exec_res) + 1], primary, llm)

(* C21: a provider call that never returns does not stall the batch: the   *)
(* item gets an "error" result, the remaining items execute and the node's *)
(* post is reached                                                         *)
HungCallTimesOut ==
  CallNeverReturns
    ~> (/\ Completed("platform_querier")
        /\ Len(Stored) = Len(MultiPlatformQueryNode_prep)
        /\ \E r \in Responses : r.status = "error")

----------------------------------------------------------------------------
(* the brand name with each character that is not a letter or a digit *)
(* turned into one underscore                                        *)
Underscored(brand_name) ==
  [i \in DOMAIN brand_name |-> IF brand_name[i] \in Alnum THEN brand_name[i] ELSE "_"]

(* C22: get_filename(brand) is <safe>_brand_report_<timestamp>.pdf, <safe> *)
(* being the brand name with each space and each special character turned *)
(* into one underscore                                                     *)
FilenameUnderscoresEverySpecialCharacter ==
  (caller = "test" /\ pc = "returned") =>
     served.value = Underscored(form.brand_name)
                      \o << "_", "b", "r", "a", "n", "d", "_", "r", "e", "p", "o", "r", "t", "_" >>
                      \o strftime(clock) \o << ".", "p", "d", "f" >>

----------------------------------------------------------------------------
(* C23: within a run the shared store, and every object reachable from it, *)
(* is modified only inside a stage's post: no prep and no exec changes it  *)
SharedWrittenOnlyInPost ==
  [][(run = "running" /\ phase \in {"prep", "exec"}) => shared' = shared]_vars

----------------------------------------------------------------------------
(* C24: in each batch stage post starts only after exec has completed for   *)
(* every item prep returned: the result list then has exactly one entry per *)
(* prepared item, the i-th being the result of the i-th item                *)
PostAfterEveryItem ==
  /\ At("platform_querier", "post") =>
        /\ Len(exec_res) = Len(prep_res)
        /\ \A i \in 1..Len(prep_res) :
              /\ exec_res[i].query = prep_res[i].query
              /\ exec_res[i].platform = prep_res[i].platform
  /\ At("response_analyzer", "post") =>
        /\ Len(exec_res) = Len(prep_res)
        /\ \A i \in 1..Len(prep_res) :
              /\ exec_res[i] = prep_res[i]
              /\ exec_res[i].status = "success" <=> Analysed(exec_res[i])

(* the analysis stage is about to run post on a batch of several items *)
PostOfSeveralItemsStarts ==
  /\ At("response_analyzer", "post")
  /\ Len(prep_res) > 1

----------------------------------------------------------------------------
(* C25: every stage tolerates the absence of any store key it reads: on a  *)
(* store lacking one, prep, exec and post complete without raising; a run  *)
(* started without the brand configuration or its name fails only where a *)
(* text-generation call raises                                            *)
AbsentKeysTolerated ==
  [][(/\ run = "running"
      /\ \/ "brand_config" \notin DOMAIN shared
         \/ "name" \notin DOMAIN SharedGet("brand_config")
      /\ run' = "failed")
     => (phase = "exec" /\ \E llm \in CallLLMOutcomes : llm.raised)]_vars

----------------------------------------------------------------------------
(* C26: a run of the flow goes through query generation, fan-out, analysis, *)
(* agent, report and storage in this order, each once; it ends only after   *)
(* the storage stage, which has no outgoing edge, and every other stage has *)
(* a "default" edge                                                         *)
StagesInOrderEachOnce ==
  entry = "flow" =>
    /\ Len(trace) <= Len(AllStages)
    /\ \A i \in 1..Len(trace) : trace[i].node = AllStages[i]
    /\ run \in {"running", "failed"} =>
          Len(trace) < Len(AllStages) /\ curr = AllStages[Len(trace) + 1]
    /\ run = "done" =>
          /\ Len(trace) = Len(AllStages)
          /\ DOMAIN successors[trace[Len(trace)].node] = {}
    /\ \A i \in 1..(Len(AllStages) - 1) : "default" \in DOMAIN successors[AllStages[i]]

(* a run of the flow has ended, in the storage stage *)
RunEndedAfterStorage ==
  /\ entry = "flow"
  /\ run = "done"
  /\ trace[Len(trace)].node = "database_storage"
  /\ "storage" \in DOMAIN shared

----------------------------------------------------------------------------
(* C27: once analyze has returned its redirect carrying a session id, every *)
(* lookup of that id by /loading or /api/status finds a session entry and   *)
(* never answers "not found", however the request threads interleave with   *)
(* the analysis thread                                                      *)
SessionFoundAfterRedirect ==
  /\ served.answer = "redirect" =>
        ("flash" \notin DOMAIN served \/ served.flash # "Analysis session not found")
  /\ served.answer = "json" => served.status # "not_found"

----------------------------------------------------------------------------
(* every run has finished storing *)
BothRunsStored ==
  /\ DOMAIN dbs = Runs
  /\ \A r \in Runs : dbs[r].step = "done"

(* C28: when two runs persist their responses and reports at the same time, *)
(* each through its own SimpleJSONDB, then after both have finished the     *)
(* file holds every response and every report either run stored, and no two *)
(* persisted records share an identifier                                    *)
ConcurrentRunsAllPersisted ==
  BothRunsStored =>
    /\ \A r \in Runs :
          /\ \A i \in 1..Len(RunResponses(r)) :
                \E k \in 1..Len(db_file.data.responses) :
                   db_file.data.responses[k].timestamp = RunResponses(r)[i].timestamp
          /\ \E k \in 1..Len(db_file.data.reports) :
                db_file.data.reports[k].filename = RunReport(r).filename
    /\ \A k, l \in 1..Len(db_file.data.responses) :
          db_file.data.responses[k].id = db_file.data.responses[l].id => k = l
    /\ \A k, l \in 1..Len(db_file.data.reports) :
          db_file.data.reports[k].id = db_file.data.reports[l].id => k = l

----------------------------------------------------------------------------
(* C29: after the analysis stage the platform-partitioned totals agree with *)
(* the flat totals: the mentions_found of every platform's responses add up *)
(* to analysis.total_mentions, and those of the responses with an organic   *)
(* mention add up to analysis.total_organic_mentions, whatever the          *)
(* categories of the responses                                              *)
PlatformTotalsEqualFlatTotals ==
  Completed("response_analyzer") =>
    /\ PlatformMetrics(shared["ai_responses"]["chatgpt"]).total_mentions
         + PlatformMetrics(shared["ai_responses"]["gemini"]).total_mentions
       = shared["analysis"]["total_mentions"]
    /\ PlatformMetrics(shared["ai_responses"]["chatgpt"]).organic_mentions
         + PlatformMetrics(shared["ai_responses"]["gemini"]).organic_mentions
       = shared["analysis"]["total_organic_mentions"]

----------------------------------------------------------------------------
(* the run failed in the exec of query synthesis or of the assessment: the *)
(* text-generation call raised                                             *)
TextGenerationRaised ==
  /\ run = "failed"
  /\ phase = "exec"
  /\ curr \in {"query_generator", "optimization_agent"}

(* what holds of a run aborted by a raising text-generation call *)
AbortedByTextGeneration ==
  /\ TextGenerationRaised =>
        /\ \A i \in 1..Len(trace) : trace[i].node = AllStages[i]
        /\ AllStages[Len(trace) + 1] = curr
        /\ curr = "query_generator" => "queries" \notin DOMAIN shared
        /\ "recommendations" \notin DOMAIN shared
        /\ "reports" \notin DOMAIN shared
        /\ "storage" \notin DOMAIN shared
        /\ ~db_file.exists
        /\ pc = "returned" =>
              IF caller = "web"
              THEN /\ DOMAIN analysis_sessions = {SessionId}
                   /\ analysis_sessions[SessionId].status = "error"
                   /\ "results" \notin DOMAIN analysis_sessions[SessionId]
              ELSE served = Returned(FALSE)
  /\ (run = "running" /\ phase = "post"
        /\ curr \in {"query_generator", "optimization_agent"}) => env.openai = "up"

(* C30: a text-generation call that raises during query synthesis or during *)
(* the assessment is not absorbed by the fallback branch: the run is        *)
(* aborted, no later stage executes, no report and no storage record is     *)
(* produced, and the caller sees one error: session status "error" in       *)
(* app.py, False returned in main.py                                        *)
RaisingTextGenerationAbortsRun ==
  /\ []AbortedByTextGeneration
  /\ [][TextGenerationRaised =>
          UNCHANGED << shared, curr, phase, trace, run, db_file, exec_res >>]_vars

(* the assessment's call raised and the web session ended in error *)
AssessmentCallRaisedSessionInError ==
  /\ TextGenerationRaised
  /\ curr = "optimization_agent"
  /\ caller = "web"
  /\ pc = "returned"
  /\ analysis_sessions[SessionId].status = "error"

====
